---- MODULE Spec2Model ----
(***************************************************************************)
(* 4DSplat: the stereo orchestrator (ply_to_stereo.py: one-shot pass,      *)
(* Unordered watch, Sequential watch), the pipeline coordinator            *)
(* (tools/run_spatial_pipeline.py: main and its batch fan-out over a       *)
(* thread pool) and the parameter resolver (render_ply_to_image.py).       *)
(*                                                                         *)
(* A frame frame_<k>.ply is identified by its index k.  The file system is *)
(* shared with a producer that writes and removes input files while the    *)
(* watcher runs.  The external renderer is a blocking call whose exit      *)
(* status is a nondeterministic input; a failing call writes no output     *)
(* and a call on a removed input fails.  main's set `processed` is only    *)
(* ever added to and never read, and is left out.  A process that ends     *)
(* (crash, interrupt) loses its memory: seen_sizes starts empty in the     *)
(* next run.                                                               *)
(*                                                                         *)
(* Specifications: Spec (the orchestrator process and its producer),       *)
(* PoolSpec / PoolFairSpec (the fan-out alone), PipeSpec (the coordinator  *)
(* from its start to its end, fan-out included), ParseSpec / ParseFairSpec *)
(* (the resolver over every file content), ResolveSpec (the resolver over  *)
(* every combination of overrides), StereoSpec (the stereo planner over    *)
(* every base position and ipd), InvokeSpec (one call of render_file),     *)
(* ListSpec (a one-shot pass over every set of file names), WatchFairSpec   *)
(* (the watcher under fair scheduling), EntrySpec (the orchestrator from   *)
(* the checks of its entry point on), SplatSpec (tools/video_to_splats.py: *)
(* main and its temporary frame directory).                                *)
(***************************************************************************)
EXTENDS Integers, Sequences, FiniteSets, TLC

\* ---------------------------------------------------------------- bounds
NumFrames == 2
NumJobs == 3
MaxWorkers == 2
MaxLines == 3
MaxVideoFrames == 2

Frames == 0 .. (NumFrames - 1)
\* Byte sizes a frame file is observed with: empty, and two different
\* non-empty sizes (the 100 and 150 of the stability example).
Sizes == {0, 100, 150}

\* seen_sizes.get(path) when the path has no entry; expected_index when not
\* sequential; the value standing for "no such file" in the directory.
None == -1
Absent == -1

\* No exception has been raised.
NoError == <<>>

\* Python's None where the other values are numbers, pairs or records: an
\* int v is <<v>>, a float is the fraction <<numerator, denominator>>.
NoValue == <<>>

\* RENDER_WORKERS = int(os.getenv("RENDER_WORKERS", "2")): the default.
RENDER_WORKERS == 2

Modes == {"oneshot", "unordered", "sequential"}

VARIABLES
    \* ---- ply_to_stereo.py: the file system
    ply_size,        \* input dir: frame -> byte size, or Absent
    out_left,        \* output dir: frames whose <stem>_left.png exists
    out_right,       \* output dir: frames whose <stem>_right.png exists
    \* ---- ply_to_stereo.py: main's arguments and locals
    mode,            \* args.watch / args.sequential
    keep_temp,       \* os.getenv("KEEP_TEMP", "1") != "0"
    seen_sizes,      \* dict path -> last observed size
    expected_index,  \* sequential counter
    ply_files,       \* process_once: the part of the listing not yet iterated
    rendered_any,    \* process_once: local flag
    cur,             \* the frame render_stereo_from_ply is working on
    calls,           \* render_stereo_from_ply: <<eye, exit status>> of each
                     \* render_file call made for cur, in call order
    error,           \* the uncaught exception that ended the process
    pc,              \* position of the orchestrator process
    \* ---- observation history (not program state)
    last_obs,        \* frame -> the latest size observation of this run
    cur_was_done,    \* were both outputs of cur present when it was considered
    cur_obs,         \* cur's last two size observations when its render began
    half_rendered,   \* frame left with one eye output by the last interrupt
    \* ---- tools/run_spatial_pipeline.py: the render fan-out
    max_workers,     \* RENDER_WORKERS
    pipe_ply_files,  \* main's ply_files: the batch, in submission order
    nsub,            \* number of frames submitted so far
    job,             \* frame -> state of its future / worker call
    num_threads,     \* executor: worker threads spawned
    idle_semaphore,  \* executor: _idle_semaphore
    renderers,       \* renderer processes alive: <<frame, eye>>
    ncol,            \* number of futures whose result() has returned
    raised_for,      \* frame whose exception result() re-raised, or None
    pool_pc,         \* position of the pipeline's main thread in the fan-out
    \* ---- tools/run_spatial_pipeline.py: main
    env_KEEP_TEMP,   \* the environment variable KEEP_TEMP: "unset", "0", "1"
    flag_keepTemp,   \* "-keepTemp" in sys.argv
    pipe_keep_temp,  \* main's keep_temp
    use_existing_stereo, \* main's use_existing_stereo
    frame_idx,       \* number of frames written by the extraction loop
    stage_log,       \* the stages invoked so far, in invocation order
    pipe_error,      \* the exception that left main, or NoError
    pipe_pc,         \* position of main
    \* ---- history (not program state)
    regen_choice,    \* the answer to the Regenerate? prompt, "" if not asked
    reused_stereo,   \* <<left, right>> frame images main decided to reuse
    \* ---- render_ply_to_image.py: the parameter resolver and its input
    args,            \* the overrides and use_ply_camera
    f_readable,      \* the ply file can be opened
    f_lines,         \* the file's lines up to end_header, each as its words
    f_data,          \* number of bytes that follow the end_header line
    f_intr,          \* <<fx, fy, cx, cy>> held by an intrinsics block
    f_size,          \* <<width, height>> held by an image size block
    rd_pos,          \* parse_ply_metadata: number of lines consumed
    n_header_lines,  \* len(header_lines), kept modulo LenMod
    intrinsics,      \* parse_ply_metadata: intrinsics
    image_size,      \* parse_ply_metadata: image_size
    params,          \* the dict resolve_render_params returns
    cmd,             \* the command build_brush_command returns
    rs_pc,           \* position of the resolver and of render_file
    \* ---- render_ply_to_image.py: the stereo planner and render_file
    cam_pos,         \* the camera position passed in
    ipd,             \* stereo_camera_positions: ipd
    left_pos,        \* stereo_camera_positions: left
    right_pos,       \* stereo_camera_positions: right
    sp_pc,           \* position of the planner
    subsample_points, \* render_file: subsample_points
    extra_args,      \* render_file: extra_args
    dry_run,         \* render_file: dry_run
    n_started,       \* number of renderer processes started by the call
    returncode,      \* exit status of the renderer process, once it ended
    rf_result,       \* render_file's return value
    \* ---- ply_to_stereo.py: file names of a one-shot pass
    dir_names,       \* input_path.glob("*.ply"): the stems, in directory order
    sort_keys,       \* sorted: <<stem, key>> for each stem, in glob's order
    listing,         \* process_once: the part of ply_files not yet iterated
    render_order,    \* the stems passed to render_stereo_from_ply, in order
    ls_pc,           \* position of the pass
    \* ---- ply_to_stereo.py: what the entry point of main finds
    input_kind,      \* args.input names nothing, frame 0's file, or the dir
    brush_on_path,   \* shutil.which(brush_bin) is not None
    brush_exists,    \* Path(brush_bin).exists()
    exit_code,       \* main's return value once it returned, or None
    \* ---- tools/video_to_splats.py: main
    input_video_exists, \* input_video.exists()
    keep_frames,     \* args.keep_frames
    first_frame_only, \* args.first_frame_only
    downsample,      \* args.downsample
    video_frames,    \* number of frames cap.read() yields
    frames_dir,      \* "temp" (mkdtemp), "kept" (output/frames), "none"
    temp_exists,     \* the directory made by mkdtemp exists
    kept_exists,     \* <output>/frames exists
    frame_paths,     \* extract_frames: len(frame_paths)
    vs_pending,      \* how the try block ended: what follows the finally
    vs_error,        \* the exception that left main, or NoError
    vs_pc            \* position of main

watchVars == <<ply_size, out_left, out_right, mode, keep_temp, seen_sizes,
               expected_index, ply_files, rendered_any, cur, calls, error,
               pc, last_obs, cur_was_done, cur_obs, half_rendered>>

poolVars == <<max_workers, pipe_ply_files, nsub, job, num_threads,
              idle_semaphore, renderers, ncol, raised_for, pool_pc>>

pipeVars == <<env_KEEP_TEMP, flag_keepTemp, pipe_keep_temp,
              use_existing_stereo, frame_idx, stage_log, pipe_error, pipe_pc,
              regen_choice, reused_stereo>>

plannerVars == <<cam_pos, ipd, left_pos, right_pos, sp_pc>>

invokerVars == <<subsample_points, extra_args, dry_run, n_started, returncode,
                 rf_result>>

resolverVars == <<args, f_readable, f_lines, f_data, f_intr, f_size, rd_pos,
                  n_header_lines, intrinsics, image_size, params, cmd, rs_pc,
                  plannerVars, invokerVars>>

listVars == <<dir_names, sort_keys, listing, render_order, ls_pc>>

entryVars == <<input_kind, brush_on_path, brush_exists, exit_code>>

splatVars == <<input_video_exists, keep_frames, first_frame_only, downsample,
               video_frames, frames_dir, temp_exists, kept_exists,
               frame_paths, vs_pending, vs_error, vs_pc>>

vars == <<watchVars, poolVars, pipeVars, resolverVars, listVars, entryVars,
          splatVars>>

\* ------------------------------------------------------- pure functions

\* Every file of the directory is listed twice.
ListedTwice(S) ==
    LET n == Cardinality(S)
    IN [i \in 1 .. 2 * n |->
          CHOOSE x \in S : Cardinality({y \in S : y < x}) = (i - 1) % n]

\* sorted(..., key=ply_index) over names frame_<k>.ply: ascending index.
RECURSIVE SortedSeq(_)
SortedSeq(S) ==
    IF S = {} THEN <<>>
    ELSE LET m == CHOOSE x \in S : \A y \in S : x <= y
         IN <<m>> \o SortedSeq(S \ {m})

\* The listing stops at the first index that has no file.
ListUpToFirstGap ==
    SortedSeq({k \in Frames : \A j \in 0 .. k : ply_size[j] # Absent})

\* list_ply_files: the input itself when it is a file (frame 0's), else
\* every *.ply the glob finds in it, sorted by index.
list_ply_files ==
    IF input_kind = "dir"
    THEN SortedSeq({k \in Frames : ply_size[k] # Absent})
    ELSE IF input_kind = "file" /\ ply_size[0] # Absent THEN <<0>>
    ELSE <<>>

\* "a frame is done iff both outputs exist"
Done(k) == k \in out_left /\ k \in out_right

\* should_process without the output check.
should_process_always(k) == TRUE

\* should_process looking at the input file, not at the outputs.
should_process_if_present(k) == ply_size[k] # Absent

\* should_process: False exactly when both output files exist.
should_process(k) == ~(k \in out_left /\ k \in out_right)

\* is_stable without the comparison with the previous observation.
is_stable_no_history(k) == ply_size[k] > 0

\* is_stable's return value: last_size is not None and last_size == size
\* and size > 0 (the dict update is SeenAfter).
is_stable(k) ==
    LET size == ply_size[k]
        last_size == seen_sizes[k]
    IN last_size # None /\ last_size = size /\ size > 0

\* is_stable's side effect: seen_sizes[ply_path] = size.
SeenAfter(k) == [seen_sizes EXCEPT ![k] = ply_size[k]]

\* The observation history kept beside seen_sizes: every call of is_stable
\* is one observation of the file's size.
Observe(k) == last_obs' = [last_obs EXCEPT ![k] = ply_size[k]]

SetMax(S) == CHOOSE x \in S : \A y \in S : y <= x

\* next_expected_index: one past the highest index that has a left OR a
\* right output; 0 when there is none.
next_expected_index ==
    LET existing == out_left \cup out_right
    IN IF existing = {} THEN 0 ELSE SetMax(existing) + 1

\* ------------------------------------------------------------- the state

Jobs == 0 .. (NumJobs - 1)

\* The fan-out is not running (the orchestrator runs on its own).
PoolIdle ==
    /\ max_workers = RENDER_WORKERS
    /\ pipe_ply_files = <<>>
    /\ nsub = 0
    /\ job = [k \in Jobs |-> "none"]
    /\ num_threads = 0
    /\ idle_semaphore = 0
    /\ renderers = {}
    /\ ncol = 0
    /\ raised_for = None
    /\ pool_pc = "off"

\* The pipeline's main is not running.
PipeIdle ==
    /\ env_KEEP_TEMP = "unset"
    /\ flag_keepTemp = FALSE
    /\ pipe_keep_temp = FALSE
    /\ use_existing_stereo = FALSE
    /\ frame_idx = 0
    /\ stage_log = <<>>
    /\ pipe_error = NoError
    /\ pipe_pc = "off"
    /\ regen_choice = ""
    /\ reused_stereo = <<{}, {}>>

\* RenderArgs() of ply_to_stereo.py and run_ply_to_spatial.py: no override,
\* use_ply_camera = True.
RenderArgs ==
    [width |-> NoValue, height |-> NoValue, fov_x |-> NoValue,
     fov_y |-> NoValue, focal_x |-> NoValue, focal_y |-> NoValue,
     center_x |-> NoValue, center_y |-> NoValue, use_ply_camera |-> TRUE]

\* The planner has not been called; the camera is at main's default
\* --cam-pos 0 0 0.
PlannerIdle ==
    /\ cam_pos = <<0, 0, 0>>
    /\ ipd = 0
    /\ left_pos = NoValue
    /\ right_pos = NoValue
    /\ sp_pc = "off"

\* render_file has started no process; its arguments are main's defaults:
\* --subsample-points None, --brush-args [], no --dry-run.
InvokerIdle ==
    /\ subsample_points = NoValue
    /\ extra_args = <<>>
    /\ dry_run = FALSE
    /\ n_started = 0
    /\ returncode = NoValue
    /\ rf_result = NoValue

\* No pass over file names is modelled.
ListIdle ==
    /\ dir_names = <<>>
    /\ sort_keys = <<>>
    /\ listing = <<>>
    /\ render_order = <<>>
    /\ ls_pc = "off"

\* main was started on a directory with the renderer installed, and has
\* passed the checks of its entry point.
EntryIdle ==
    /\ input_kind = "dir"
    /\ brush_on_path = TRUE
    /\ brush_exists = FALSE
    /\ exit_code = None

\* video_to_splats.py does not run.
SplatIdle ==
    /\ input_video_exists = FALSE
    /\ keep_frames = FALSE
    /\ first_frame_only = FALSE
    /\ downsample = FALSE
    /\ video_frames = 0
    /\ frames_dir = "none"
    /\ temp_exists = FALSE
    /\ kept_exists = FALSE
    /\ frame_paths = 0
    /\ vs_pending = ""
    /\ vs_error = NoError
    /\ vs_pc = "off"

\* The resolver has not been called.
ResolverNotCalled ==
    /\ InvokerIdle
    /\ rd_pos = 0
    /\ n_header_lines = 0
    /\ intrinsics = NoValue
    /\ image_size = NoValue
    /\ params = NoValue
    /\ cmd = <<>>

\* No resolver call is modelled.
ResolverOff ==
    /\ args = RenderArgs
    /\ f_readable = TRUE
    /\ f_lines = <<>>
    /\ f_data = 0
    /\ f_intr = NoValue
    /\ f_size = NoValue
    /\ ResolverNotCalled
    /\ rs_pc = "off"

\* Nothing of render_ply_to_image.py is running.
ResolverIdle == ResolverOff /\ PlannerIdle

NoSizes == [k \in Frames |-> None]

Init ==
    /\ ply_size = [k \in Frames |-> Absent]
    /\ out_left = {}
    /\ out_right = {}
    /\ mode \in Modes
    /\ keep_temp \in BOOLEAN
    /\ seen_sizes = NoSizes
    /\ expected_index = None
    /\ ply_files = <<>>
    /\ rendered_any = FALSE
    /\ cur = None
    /\ calls = <<>>
    /\ error = NoError
    /\ pc = "init"
    /\ last_obs = NoSizes
    /\ cur_was_done = FALSE
    /\ cur_obs = <<None, None>>
    /\ half_rendered = None
    /\ PoolIdle
    /\ PipeIdle
    /\ ResolverIdle
    /\ ListIdle
    /\ EntryIdle
    /\ SplatIdle

fsVars == <<ply_size, out_left, out_right>>
argVars == <<mode, keep_temp, half_rendered>>
obsVars == <<seen_sizes, last_obs>>
curVars == <<cur, cur_was_done, cur_obs, calls>>

\* ------------------------------------------------- ply_to_stereo.py main

\* main up to the watch loop: fresh seen_sizes, and in sequential mode the
\* recovered expected index.
Main ==
    /\ UNCHANGED <<poolVars, pipeVars, resolverVars, listVars, entryVars,
                   splatVars>>
    /\ pc = "init"
    /\ seen_sizes' = NoSizes
    /\ last_obs' = NoSizes
    /\ expected_index' = IF mode = "sequential" THEN next_expected_index ELSE None
    /\ pc' = "loop"
    /\ half_rendered' = None
    /\ UNCHANGED <<fsVars, mode, keep_temp, ply_files, rendered_any, curVars,
                   error>>

\* An uncaught exception with message e ends the process: its exit status
\* is 1 and its memory is gone.  The unvisited rest of the listing and the
\* frame at fault stay recorded.
Crash(e) ==
    /\ pc' = "crashed"
    /\ error' = e
    /\ seen_sizes' = NoSizes
    /\ last_obs' = NoSizes

\* render_stereo_from_ply is entered for frame k: the parameter resolver runs
\* and the left renderer call is the next step.
StartRender(k) ==
    /\ cur' = k
    /\ cur_was_done' = Done(k)
    /\ cur_obs' = IF mode = "oneshot" THEN <<None, None>>
                  ELSE <<last_obs[k], ply_size[k]>>
    /\ calls' = <<>>
    /\ pc' = "left"

\* process_once, lines 202-205: list the directory; an empty listing
\* returns False.
ProcessOnceList ==
    /\ UNCHANGED <<poolVars, pipeVars, resolverVars, listVars, entryVars,
                   splatVars>>
    /\ pc = "loop"
    /\ mode # "sequential"
    /\ rendered_any' = FALSE
    /\ ply_files' = list_ply_files
    /\ pc' = IF list_ply_files # <<>> THEN "for"
             ELSE IF mode = "oneshot" THEN "exit" ELSE "sleep"
    /\ UNCHANGED <<fsVars, argVars, obsVars, expected_index, curVars, error>>

\* process_once, lines 206-212: one iteration of the for loop up to the call
\* of render_stereo_from_ply.  stat() of a file removed since the listing
\* raises and ends the process.
ProcessOnceIter ==
    /\ UNCHANGED <<poolVars, pipeVars, resolverVars, listVars, entryVars,
                   splatVars>>
    /\ pc = "for"
    /\ ply_files # <<>>
    /\ LET k == Head(ply_files) IN
        /\ ply_files' = Tail(ply_files)
        /\ IF ~should_process(k)
           THEN UNCHANGED <<obsVars, curVars, pc, error>>
           ELSE IF mode = "oneshot"
           THEN StartRender(k) /\ UNCHANGED <<obsVars, error>>
           ELSE IF ply_size[k] = Absent
           THEN Crash(<<k, "stat">>) /\ UNCHANGED <<curVars>>
           ELSE /\ seen_sizes' = SeenAfter(k)
                /\ Observe(k)
                /\ UNCHANGED error
                /\ IF is_stable(k)
                   THEN StartRender(k)
                   ELSE UNCHANGED <<curVars, pc>>
    /\ UNCHANGED <<fsVars, argVars, expected_index, rendered_any>>

\* render_file's return value: the renderer's exit status, 0 when it has
\* written its output.
ExitStatus(ok) == IF ok THEN 0 ELSE 1

\* The exceptions of render_stereo_from_ply: RuntimeError("brush-render
\* failed for <ply_path.name> (<eye>)").
RenderError(k, eye) == <<k, eye>>

\* A left renderer call whose exit status is not looked at: the right call
\* follows in any case.
RenderLeftUnchecked ==
    /\ UNCHANGED <<poolVars, pipeVars, resolverVars, listVars, entryVars,
                   splatVars>>
    /\ pc = "left"
    /\ \E ok \in BOOLEAN :
        LET written == ok /\ ply_size[cur] # Absent IN
        /\ calls' = Append(calls, <<"left", ExitStatus(written)>>)
        /\ out_left' = IF written THEN out_left \cup {cur} ELSE out_left
        /\ pc' = "right"
    /\ UNCHANGED <<ply_size, out_right, argVars, obsVars, error,
                   expected_index, ply_files, rendered_any,
                   cur, cur_was_done, cur_obs>>

\* render_stereo_from_ply, lines 66-86: the left renderer call; a non-zero
\* exit raises RuntimeError, which nothing catches.
RenderLeft ==
    /\ UNCHANGED <<poolVars, pipeVars, resolverVars, listVars, entryVars,
                   splatVars>>
    /\ pc = "left"
    /\ \E ok \in BOOLEAN :
        LET written == ok /\ ply_size[cur] # Absent IN
        /\ calls' = Append(calls, <<"left", ExitStatus(written)>>)
        /\ IF written
           THEN /\ out_left' = out_left \cup {cur}
                /\ pc' = "right"
                /\ UNCHANGED <<obsVars, error>>
           ELSE /\ Crash(RenderError(cur, "left"))
                /\ UNCHANGED out_left
    /\ UNCHANGED <<ply_size, out_right, argVars,
                   expected_index, ply_files, rendered_any,
                   cur, cur_was_done, cur_obs>>

\* The statements after a successful render_stereo_from_ply: lines 213-216
\* in process_once, lines 255-258 in the sequential loop.
AfterRender ==
    /\ cur' = None
    /\ cur_was_done' = FALSE
    /\ cur_obs' = <<None, None>>
    /\ calls' = <<>>
    /\ ply_size' = IF keep_temp THEN ply_size
                   ELSE [ply_size EXCEPT ![cur] = Absent]
    /\ IF mode = "sequential"
       THEN /\ expected_index' = expected_index + 1
            /\ pc' = "loop"
            /\ UNCHANGED rendered_any
       ELSE /\ rendered_any' = TRUE
            /\ pc' = "for"
            /\ UNCHANGED expected_index

\* render_stereo_from_ply, lines 88-108: the right renderer call, and on
\* success the caller's statements after the render.
RenderRight ==
    /\ UNCHANGED <<poolVars, pipeVars, resolverVars, listVars, entryVars,
                   splatVars>>
    /\ pc = "right"
    /\ \E ok \in BOOLEAN :
        IF ok /\ ply_size[cur] # Absent
        THEN /\ out_right' = out_right \cup {cur}
             /\ AfterRender
             /\ UNCHANGED <<obsVars, error>>
        ELSE /\ Crash(RenderError(cur, "right"))
             /\ calls' = Append(calls, <<"right", ExitStatus(FALSE)>>)
             /\ UNCHANGED <<ply_size, out_right, expected_index,
                            rendered_any, cur, cur_was_done, cur_obs>>
    /\ UNCHANGED <<out_left, argVars, ply_files>>

\* process_once, line 217, and its caller: lines 219-221 (one-shot) or
\* lines 262-264 (unordered watch).
ProcessOnceReturn ==
    /\ UNCHANGED <<poolVars, pipeVars, resolverVars, listVars, entryVars,
                   splatVars>>
    /\ pc = "for"
    /\ ply_files = <<>>
    /\ pc' = IF mode = "oneshot" THEN "exit"
             ELSE IF rendered_any THEN "loop" ELSE "sleep"
    /\ UNCHANGED <<fsVars, argVars, obsVars, expected_index,
                   ply_files, rendered_any, curVars, error>>

\* time.sleep(args.poll_interval) returns.
Wake ==
    /\ UNCHANGED <<poolVars, pipeVars, resolverVars, listVars, entryVars,
                   splatVars>>
    /\ pc = "sleep"
    /\ pc' = "loop"
    /\ UNCHANGED <<fsVars, argVars, obsVars, expected_index,
                   ply_files, rendered_any, curVars, error>>

\* One iteration of the sequential branch of the watch loop, lines 248-260.
SeqPoll ==
    /\ UNCHANGED <<poolVars, pipeVars, resolverVars, listVars, entryVars,
                   splatVars>>
    /\ pc = "loop"
    /\ mode = "sequential"
    /\ LET k == expected_index IN
        IF k \in Frames /\ ply_size[k] # Absent
        THEN IF should_process(k)
             THEN /\ seen_sizes' = SeenAfter(k)
                  /\ Observe(k)
                  /\ IF is_stable(k)
                     THEN StartRender(k) /\ UNCHANGED expected_index
                     ELSE /\ expected_index' = expected_index + 1
                          /\ UNCHANGED <<curVars, pc>>
             ELSE /\ expected_index' = expected_index + 1
                  /\ UNCHANGED <<obsVars, curVars, pc>>
        ELSE /\ pc' = "sleep"
             /\ UNCHANGED <<obsVars, expected_index, curVars>>
    /\ UNCHANGED <<fsVars, argVars, ply_files, rendered_any, error>>

\* ------------------------------------------------------- the environment

\* The upstream producer creates a frame file or changes its size.
ProducerWrite ==
    /\ UNCHANGED <<poolVars, pipeVars, resolverVars, listVars, entryVars,
                   splatVars>>
    /\ \E k \in Frames, s \in Sizes :
        /\ ply_size[k] # s
        /\ ply_size' = [ply_size EXCEPT ![k] = s]
    /\ UNCHANGED <<out_left, out_right, argVars, obsVars, error,
                   expected_index, ply_files, rendered_any, curVars, pc>>

\* A frame file disappears from the input directory.
ProducerRemove ==
    /\ UNCHANGED <<poolVars, pipeVars, resolverVars, listVars, entryVars,
                   splatVars>>
    /\ \E k \in Frames :
        /\ ply_size[k] # Absent
        /\ ply_size' = [ply_size EXCEPT ![k] = Absent]
    /\ UNCHANGED <<out_left, out_right, argVars, obsVars, error,
                   expected_index, ply_files, rendered_any, curVars, pc>>

Running == pc \in {"loop", "for", "left", "right", "sleep"}

\* The process is stopped from outside; a renderer call in flight writes
\* nothing more.
Interrupt ==
    /\ UNCHANGED <<poolVars, pipeVars, resolverVars, listVars, entryVars,
                   splatVars>>
    /\ Running
    /\ pc' = "stopped"
    /\ seen_sizes' = NoSizes
    /\ last_obs' = NoSizes
    /\ expected_index' = None
    /\ ply_files' = <<>>
    /\ rendered_any' = FALSE
    /\ cur' = None
    /\ cur_was_done' = FALSE
    /\ cur_obs' = <<None, None>>
    /\ calls' = <<>>
    /\ error' = NoError
    /\ half_rendered' = IF mode # "oneshot" /\ pc = "right" THEN cur ELSE None
    /\ UNCHANGED <<fsVars, mode, keep_temp>>

\* The command is run again, with any arguments, over the same directories.
Restart ==
    /\ UNCHANGED <<poolVars, pipeVars, resolverVars, listVars, entryVars,
                   splatVars>>
    /\ pc \in {"exit", "crashed", "stopped"}
    /\ mode' \in Modes
    /\ keep_temp' \in BOOLEAN
    /\ pc' = "init"
    /\ ply_files' = <<>>
    /\ rendered_any' = FALSE
    /\ cur' = None
    /\ cur_was_done' = FALSE
    /\ cur_obs' = <<None, None>>
    /\ calls' = <<>>
    /\ error' = NoError
    /\ expected_index' = None
    /\ UNCHANGED <<fsVars, obsVars, half_rendered>>

Next ==
    \/ Main
    \/ ProcessOnceList
    \/ ProcessOnceIter
    \/ RenderLeft
    \/ RenderRight
    \/ ProcessOnceReturn
    \/ Wake
    \/ SeqPoll
    \/ ProducerWrite
    \/ ProducerRemove
    \/ Interrupt
    \/ Restart

Spec == Init /\ [][Next]_vars

\* The watcher is left to run: nothing stops it from outside and it is not
\* started again.
WatchNext ==
    \/ Main
    \/ ProcessOnceList
    \/ ProcessOnceIter
    \/ RenderLeft
    \/ RenderRight
    \/ ProcessOnceReturn
    \/ Wake
    \/ SeqPoll
    \/ ProducerWrite
    \/ ProducerRemove

\* The watcher's thread keeps being scheduled while it has a step to take;
\* the producer acts when it likes.
WatchFairSpec ==
    /\ Init
    /\ [][WatchNext]_vars
    /\ WF_vars(Main)
    /\ WF_vars(ProcessOnceList)
    /\ WF_vars(ProcessOnceIter)
    /\ WF_vars(RenderLeft)
    /\ WF_vars(RenderRight)
    /\ WF_vars(ProcessOnceReturn)
    /\ WF_vars(Wake)
    /\ WF_vars(SeqPoll)

\* ------------------------------ ply_to_stereo.py: the entry point of main

\* input_path.exists() and input_path.is_dir(), lines 168 and 172.
InputExists ==
    input_kind = "dir" \/ (input_kind = "file" /\ ply_size[0] # Absent)

InputIsDir == input_kind = "dir"

\* The renderer is taken to be installed.
BrushAssumed == TRUE

\* ensure_brush_binary: shutil.which(brush_bin) is not None or
\* Path(brush_bin).exists().
ensure_brush_binary == brush_on_path \/ brush_exists

\* main, lines 168-183: the input must exist, watch mode needs a
\* directory, and the renderer binary must be found; each failed check
\* prints an error and returns 1.
MainChecks ==
    /\ pc = "entry"
    /\ IF ~InputExists
          \/ (mode # "oneshot" /\ ~InputIsDir)
          \/ ~ensure_brush_binary
       THEN /\ exit_code' = 1
            /\ pc' = "returned"
       ELSE /\ pc' = "init"
            /\ UNCHANGED exit_code
    /\ UNCHANGED <<input_kind, brush_on_path, brush_exists>>
    /\ UNCHANGED <<fsVars, argVars, obsVars, expected_index, ply_files,
                   rendered_any, curVars, error>>
    /\ UNCHANGED <<poolVars, pipeVars, resolverVars, listVars, splatVars>>

EntryNext ==
    \/ MainChecks
    \/ WatchNext

\* main is started on any input, with or without the renderer installed.
EntryInit ==
    /\ ply_size = [k \in Frames |-> Absent]
    /\ out_left = {}
    /\ out_right = {}
    /\ mode \in Modes
    /\ keep_temp \in BOOLEAN
    /\ seen_sizes = NoSizes
    /\ expected_index = None
    /\ ply_files = <<>>
    /\ rendered_any = FALSE
    /\ cur = None
    /\ calls = <<>>
    /\ error = NoError
    /\ pc = "entry"
    /\ last_obs = NoSizes
    /\ cur_was_done = FALSE
    /\ cur_obs = <<None, None>>
    /\ half_rendered = None
    /\ input_kind \in {"missing", "file", "dir"}
    /\ brush_on_path \in BOOLEAN
    /\ brush_exists \in BOOLEAN
    /\ exit_code = None
    /\ PoolIdle
    /\ PipeIdle
    /\ ResolverIdle
    /\ ListIdle
    /\ SplatIdle

EntrySpec == EntryInit /\ [][EntryNext]_vars

\* ------------------------- tools/run_spatial_pipeline.py: the fan-out
\* Each frame's job is render_with_ply_to_stereo: a ply_to_stereo.py child
\* process in one-shot mode over that one file.  The jobs run on the worker
\* threads of ThreadPoolExecutor(max_workers=RENDER_WORKERS).

\* The orchestrator's variables other than the file system and keep_temp,
\* which the fan-out's children share with it.
procVars == <<mode, half_rendered, seen_sizes, expected_index, ply_files,
              rendered_any, cur, calls, error, pc, last_obs, cur_was_done,
              cur_obs, resolverVars, listVars, entryVars, splatVars>>

orchVars == <<procVars, pipeVars>>

\* The state when the fan-out is reached (line 196): the batch is the sorted
\* listing of ply_dir, which is not empty, and stereo_dir holds no frame
\* output (it was empty or has been removed, lines 118-130).
PoolInit ==
    /\ \E n \in 1 .. NumJobs :
        ply_size = [k \in Jobs |-> IF k < n THEN 100 ELSE Absent]
    /\ pipe_ply_files = SortedSeq({k \in Jobs : ply_size[k] # Absent})
    /\ out_left = {}
    /\ out_right = {}
    /\ mode = "oneshot"
    /\ keep_temp \in BOOLEAN
    /\ seen_sizes = NoSizes
    /\ expected_index = None
    /\ ply_files = <<>>
    /\ rendered_any = FALSE
    /\ cur = None
    /\ calls = <<>>
    /\ error = NoError
    /\ pc = "init"
    /\ last_obs = NoSizes
    /\ cur_was_done = FALSE
    /\ cur_obs = <<None, None>>
    /\ half_rendered = None
    /\ max_workers \in (1 .. MaxWorkers) \cup {RENDER_WORKERS}
    /\ nsub = 0
    /\ job = [k \in Jobs |-> "none"]
    /\ num_threads = 0
    /\ idle_semaphore = 0
    /\ renderers = {}
    /\ ncol = 0
    /\ raised_for = None
    /\ pool_pc = "submit"
    /\ PipeIdle
    /\ ResolverIdle
    /\ ListIdle
    /\ EntryIdle
    /\ SplatIdle

\* A thread is spawned for every submitted work item.
SpawnAlways == TRUE

\* ThreadPoolExecutor._adjust_thread_count: a thread is spawned only below
\* max_workers.
SpawnAllowed == num_threads < max_workers

\* executor.submit for the next frame of the dict comprehension, lines
\* 199-202: queue the work item, then reuse an idle thread or spawn one.
PoolSubmit ==
    /\ pool_pc = "submit"
    /\ nsub < Len(pipe_ply_files)
    /\ job' = [job EXCEPT ![pipe_ply_files[nsub + 1]] = "pending"]
    /\ nsub' = nsub + 1
    /\ IF idle_semaphore > 0
       THEN idle_semaphore' = idle_semaphore - 1 /\ UNCHANGED num_threads
       ELSE /\ num_threads' = IF SpawnAllowed THEN num_threads + 1
                              ELSE num_threads
            /\ UNCHANGED idle_semaphore
    /\ pool_pc' = IF nsub + 1 = Len(pipe_ply_files) THEN "collect" ELSE "submit"
    /\ UNCHANGED <<max_workers, pipe_ply_files, renderers, ncol, raised_for>>
    /\ UNCHANGED <<fsVars, keep_temp, orchVars>>

Busy == Cardinality({k \in Jobs : job[k] = "running"})

\* Workers stop taking work items once a future has failed.
ThreadFreeUntilFailure ==
    /\ Busy < num_threads
    /\ \A k \in Jobs : job[k] # "failed"

\* A worker thread is blocked in work_queue.get.  Workers keep taking work
\* items after a future has failed and after shutdown has been requested:
\* nothing cancels a queued item.
ThreadFree == Busy < num_threads

\* A worker thread takes the oldest queued work item and starts the child
\* process (subprocess.run, line 45).
WorkerTake ==
    /\ ThreadFree
    /\ \E i \in 1 .. nsub :
        /\ job[pipe_ply_files[i]] = "pending"
        /\ \A j \in 1 .. (i - 1) : job[pipe_ply_files[j]] # "pending"
        /\ job' = [job EXCEPT ![pipe_ply_files[i]] = "running"]
    /\ UNCHANGED <<max_workers, pipe_ply_files, nsub, num_threads,
                   idle_semaphore, renderers, ncol, raised_for, pool_pc>>
    /\ UNCHANGED <<fsVars, keep_temp, orchVars>>

\* The work item ends: the future holds a result ("ok") or the exception
\* CalledProcessError ("failed"), and the thread counts as idle again.
FinishJob(k, r) ==
    /\ job' = [job EXCEPT ![k] = r]
    /\ idle_semaphore' = idle_semaphore + 1

\* The child's one-shot pass over its single file up to the left renderer
\* call: should_process, then render_stereo_from_ply.
ChildStart ==
    /\ \E k \in Jobs :
        /\ job[k] = "running"
        /\ \A e \in {"left", "right"} : <<k, e>> \notin renderers
        /\ IF should_process(k)
           THEN /\ renderers' = renderers \cup {<<k, "left">>}
                /\ UNCHANGED <<job, idle_semaphore>>
           ELSE /\ FinishJob(k, "ok")
                /\ UNCHANGED renderers
    /\ UNCHANGED <<max_workers, pipe_ply_files, nsub, num_threads, ncol,
                   raised_for, pool_pc>>
    /\ UNCHANGED <<fsVars, keep_temp, orchVars>>

\* The renderer processes of frame k after its left call returned with
\* status 0: render_file is synchronous, the right call starts only then.
AfterLeft(k) == (renderers \ {<<k, "left">>}) \cup {<<k, "right">>}

\* The child's left renderer call returns; a non-zero status ends the child
\* with status 1, which subprocess.run(check=True) turns into an exception.
ChildLeftExit ==
    /\ \E k \in Jobs, ok \in BOOLEAN :
        /\ <<k, "left">> \in renderers
        /\ IF ok
           THEN /\ out_left' = out_left \cup {k}
                /\ renderers' = AfterLeft(k)
                /\ UNCHANGED <<job, idle_semaphore>>
           ELSE /\ renderers' = renderers \ {<<k, "left">>}
                /\ FinishJob(k, "failed")
                /\ UNCHANGED out_left
    /\ UNCHANGED <<max_workers, pipe_ply_files, nsub, num_threads, ncol,
                   raised_for, pool_pc>>
    /\ UNCHANGED <<ply_size, out_right, keep_temp, orchVars>>

\* The child's right renderer call returns; on success the child removes
\* its input unless its own keep_temp holds, and exits with status 0.
ChildRightExit ==
    /\ \E k \in Jobs, ok \in BOOLEAN :
        /\ <<k, "right">> \in renderers
        /\ renderers' = renderers \ {<<k, "right">>}
        /\ IF ok
           THEN /\ out_right' = out_right \cup {k}
                /\ ply_size' = IF keep_temp THEN ply_size
                               ELSE [ply_size EXCEPT ![k] = Absent]
                /\ FinishJob(k, "ok")
           ELSE /\ FinishJob(k, "failed")
                /\ UNCHANGED <<ply_size, out_right>>
    /\ UNCHANGED <<max_workers, pipe_ply_files, nsub, num_threads, ncol,
                   raised_for, pool_pc>>
    /\ UNCHANGED <<out_left, keep_temp, orchVars>>

\* for future in futures: future.result(), lines 203-204.  result() blocks
\* until its future has ended and re-raises the future's exception, which
\* leaves the loop and the with block.
PoolResult ==
    /\ pool_pc = "collect"
    /\ ncol < Len(pipe_ply_files)
    /\ LET k == pipe_ply_files[ncol + 1] IN
        /\ job[k] \in {"ok", "failed"}
        /\ IF job[k] = "ok"
           THEN /\ ncol' = ncol + 1
                /\ pool_pc' = IF ncol + 1 = Len(pipe_ply_files)
                              THEN "shutdown" ELSE "collect"
                /\ UNCHANGED raised_for
           ELSE /\ raised_for' = k
                /\ pool_pc' = "shutdown"
                /\ UNCHANGED ncol
    /\ UNCHANGED <<max_workers, pipe_ply_files, nsub, job, num_threads,
                   idle_semaphore, renderers>>
    /\ UNCHANGED <<fsVars, keep_temp, orchVars>>

\* shutdown(wait=False): the with block is left while work items remain.
ShutdownNoWait == TRUE

\* Executor.__exit__ is shutdown(wait=True): it returns once every worker
\* thread has ended, which is once no work item is queued or running.
ShutdownReturns == \A k \in Jobs : job[k] \notin {"pending", "running"}

\* The with block is left, line 198: normally, or with the exception of
\* result(), which then leaves main.
PoolShutdown ==
    /\ pool_pc = "shutdown"
    /\ ShutdownReturns
    /\ pool_pc' = IF raised_for = None THEN "rendered" ELSE "raised"
    /\ UNCHANGED <<max_workers, pipe_ply_files, nsub, job, num_threads,
                   idle_semaphore, renderers, ncol, raised_for>>
    /\ UNCHANGED <<fsVars, keep_temp, orchVars>>

PoolNext ==
    \/ PoolSubmit
    \/ WorkerTake
    \/ ChildStart
    \/ ChildLeftExit
    \/ ChildRightExit
    \/ PoolResult
    \/ PoolShutdown

PoolSpec == PoolInit /\ [][PoolNext]_vars

\* The main thread, the worker threads and the child processes all keep
\* running, and every renderer call returns.
PoolFairSpec ==
    /\ PoolSpec
    /\ WF_vars(PoolSubmit)
    /\ WF_vars(WorkerTake)
    /\ WF_vars(ChildStart)
    /\ WF_vars(ChildLeftExit)
    /\ WF_vars(ChildRightExit)
    /\ WF_vars(PoolResult)
    /\ WF_vars(PoolShutdown)

\* What the fan-out reports when it ends: the frame named by the exception
\* that leaves main (the first failed future in submission order), or
\* nothing.
Reported == IF raised_for = None THEN {} ELSE {raised_for}

Failed == {k \in Jobs : job[k] = "failed"}

PoolEnded == pool_pc \in {"rendered", "raised"}

\* ------------------------------- tools/run_spatial_pipeline.py: main

executorVars == <<max_workers, nsub, job, num_threads, idle_semaphore,
                  renderers, ncol, raised_for>>

\* The stages main can invoke, in the order of the pipeline.
Stages == <<"extract", "plygen", "render", "encode">>

\* KEEP_TEMP = "-keepTemp" in sys.argv or os.getenv("KEEP_TEMP") == "1"
KEEP_TEMP == flag_keepTemp \/ env_KEEP_TEMP = "1"

\* The keep_temp of a ply_to_stereo.py child, which inherits the parent's
\* environment: os.getenv("KEEP_TEMP", "1") != "0".
ChildKeepTemp == env_KEEP_TEMP # "0"

\* The state when main starts: the project's stereo_frames directory holds
\* any frame images of a prior run, its ply directory none.
PipeInit ==
    /\ ply_size = [k \in Jobs |-> Absent]
    /\ out_left \in SUBSET Jobs
    /\ out_right \in SUBSET Jobs
    /\ env_KEEP_TEMP \in {"unset", "0", "1"}
    /\ flag_keepTemp \in BOOLEAN
    /\ keep_temp = ChildKeepTemp
    /\ mode = "oneshot"
    /\ seen_sizes = NoSizes
    /\ expected_index = None
    /\ ply_files = <<>>
    /\ rendered_any = FALSE
    /\ cur = None
    /\ calls = <<>>
    /\ error = NoError
    /\ pc = "init"
    /\ last_obs = NoSizes
    /\ cur_was_done = FALSE
    /\ cur_obs = <<None, None>>
    /\ half_rendered = None
    /\ max_workers \in (1 .. MaxWorkers) \cup {RENDER_WORKERS}
    /\ pipe_ply_files = <<>>
    /\ nsub = 0
    /\ job = [k \in Jobs |-> "none"]
    /\ num_threads = 0
    /\ idle_semaphore = 0
    /\ renderers = {}
    /\ ncol = 0
    /\ raised_for = None
    /\ pool_pc = "off"
    /\ pipe_keep_temp = FALSE
    /\ use_existing_stereo = FALSE
    /\ frame_idx = 0
    /\ stage_log = <<>>
    /\ pipe_error = NoError
    /\ pipe_pc = "start"
    /\ regen_choice = ""
    /\ reused_stereo = <<{}, {}>>
    /\ ResolverIdle
    /\ ListIdle
    /\ EntryIdle
    /\ SplatIdle

\* An exception of type e leaves main.
PipeRaise(e) ==
    /\ pipe_pc' = "raised"
    /\ pipe_error' = e

\* main, lines 64-96: the input folder and video selection, then keep_temp
\* (the prompt is shown only when KEEP_TEMP is false).
PipeStart ==
    /\ pipe_pc = "start"
    /\ \E videos \in BOOLEAN, keep_choice \in BOOLEAN :
        IF ~videos
        THEN pipe_pc' = "return1" /\ UNCHANGED pipe_keep_temp
        ELSE /\ pipe_keep_temp' = (KEEP_TEMP \/ keep_choice)
             /\ pipe_pc' = "tmp"
    /\ UNCHANGED <<env_KEEP_TEMP, flag_keepTemp, use_existing_stereo,
                   frame_idx, stage_log, pipe_error, regen_choice,
                   reused_stereo>>
    /\ UNCHANGED <<fsVars, keep_temp, procVars, poolVars>>

\* The stereo_frames directory is left as it is when regeneration is chosen.
StereoKeptOnRegen(images) == images

\* shutil.rmtree(stereo_dir) followed by mkdir, lines 129-130: no frame
\* image is left.
StereoAfterRegen(images) == {}

\* main, lines 106-130: the Overwrite? prompt when the temp folder exists,
\* the mkdirs, and the reuse decision over the stereo frames found.
PipeTmpSetup ==
    /\ pipe_pc = "tmp"
    /\ \E overwrite \in BOOLEAN, regen \in BOOLEAN :
        LET left0 == IF overwrite THEN {} ELSE out_left
            right0 == IF overwrite THEN {} ELSE out_right
            existing_stereo == left0 # {} \/ right0 # {}
        IN IF existing_stereo /\ ~regen
           THEN /\ use_existing_stereo' = TRUE
                /\ regen_choice' = "n"
                /\ reused_stereo' = <<left0, right0>>
                /\ out_left' = left0
                /\ out_right' = right0
           ELSE /\ use_existing_stereo' = FALSE
                /\ regen_choice' = IF existing_stereo THEN "y" ELSE ""
                /\ reused_stereo' = <<{}, {}>>
                /\ out_left' = IF existing_stereo
                               THEN StereoAfterRegen(left0) ELSE left0
                /\ out_right' = IF existing_stereo
                                THEN StereoAfterRegen(right0) ELSE right0
    /\ pipe_pc' = "open"
    /\ UNCHANGED <<env_KEEP_TEMP, flag_keepTemp, pipe_keep_temp, frame_idx,
                   stage_log, pipe_error>>
    /\ UNCHANGED <<ply_size, keep_temp, procVars, poolVars>>

\* main, lines 132-153: ensure_dependencies, opening the video, and the
\* Continue? prompt, which is shown only when frames will be rendered.
PipeOpenVideo ==
    /\ pipe_pc = "open"
    /\ \E cv2_found \in BOOLEAN, opened \in BOOLEAN,
          total_frames \in 0 .. NumJobs, confirm \in BOOLEAN :
        IF ~cv2_found
        THEN PipeRaise("RuntimeError")
        ELSE /\ pipe_pc' = IF ~opened THEN "return1"
                           ELSE IF ~use_existing_stereo /\ total_frames > 0
                                   /\ ~confirm
                           THEN "return0"
                           ELSE "extract"
             /\ UNCHANGED pipe_error
    /\ UNCHANGED <<env_KEEP_TEMP, flag_keepTemp, pipe_keep_temp,
                   use_existing_stereo, frame_idx, stage_log, regen_choice,
                   reused_stereo>>
    /\ UNCHANGED <<fsVars, keep_temp, procVars, poolVars>>

\* main, lines 155-175: the extraction loop, skipped when stereo frames are
\* reused; a video that yields no frame ends main with status 1.
PipeExtract ==
    /\ pipe_pc = "extract"
    /\ IF use_existing_stereo
       THEN /\ pipe_pc' = "encode"
            /\ UNCHANGED <<frame_idx, stage_log>>
       ELSE \E n \in 0 .. NumJobs :
            /\ frame_idx' = n
            /\ stage_log' = Append(stage_log, "extract")
            /\ pipe_pc' = IF n = 0 THEN "return1" ELSE "plygen"
    /\ UNCHANGED <<env_KEEP_TEMP, flag_keepTemp, pipe_keep_temp,
                   use_existing_stereo, pipe_error, regen_choice,
                   reused_stereo>>
    /\ UNCHANGED <<fsVars, keep_temp, procVars, poolVars>>

\* main, lines 177-198: image_to_splat.py as a child process
\* (check=True), the listing of ply_dir, and the entry into the fan-out.
PipePlyGen ==
    /\ pipe_pc = "plygen"
    /\ \E ok \in BOOLEAN, m \in 0 .. frame_idx :
        IF ~ok
        THEN /\ PipeRaise("CalledProcessError")
             /\ stage_log' = Append(stage_log, "plygen")
             /\ UNCHANGED <<ply_size, pipe_ply_files, pool_pc>>
        ELSE /\ ply_size' = [k \in Jobs |-> IF k < m THEN 100 ELSE Absent]
             /\ IF m = 0
                THEN /\ PipeRaise("RuntimeError")
                     /\ stage_log' = Append(stage_log, "plygen")
                     /\ UNCHANGED <<pipe_ply_files, pool_pc>>
                ELSE /\ pipe_ply_files' = SortedSeq({k \in Jobs : k < m})
                     /\ pool_pc' = "submit"
                     /\ stage_log' = stage_log \o <<"plygen", "render">>
                     /\ pipe_pc' = "render"
                     /\ UNCHANGED pipe_error
    /\ UNCHANGED <<env_KEEP_TEMP, flag_keepTemp, pipe_keep_temp,
                   use_existing_stereo, frame_idx, regen_choice,
                   reused_stereo>>
    /\ UNCHANGED <<out_left, out_right, keep_temp, procVars, executorVars>>

\* for ply_path in ply_files: ply_path.unlink(), lines 210-211: the files
\* are removed in order up to the first one that is missing, whose unlink
\* raises FileNotFoundError.
Missing == {i \in 1 .. Len(pipe_ply_files) : ply_size[pipe_ply_files[i]] = Absent}

Unlinked ==
    LET stop == IF Missing = {} THEN Len(pipe_ply_files) + 1
                ELSE CHOOSE i \in Missing : \A j \in Missing : i <= j
    IN [k \in Jobs |->
          IF \E i \in 1 .. (stop - 1) : pipe_ply_files[i] = k
          THEN Absent ELSE ply_size[k]]

\* The exception of future.result() is swallowed: main goes on to the
\* retention step whatever the futures hold.
PipeAfterFanOutIgnoringFailures ==
    /\ pipe_pc = "render"
    /\ PoolEnded
    /\ pipe_pc' = "encode"
    /\ UNCHANGED <<ply_size, pipe_error>>
    /\ UNCHANGED <<env_KEEP_TEMP, flag_keepTemp, pipe_keep_temp,
                   use_existing_stereo, frame_idx, stage_log, regen_choice,
                   reused_stereo>>
    /\ UNCHANGED <<out_left, out_right, keep_temp, procVars, poolVars>>

\* main, lines 198-211, after the with block: the exception of
\* future.result() leaves main; otherwise the retention step.
PipeAfterFanOut ==
    /\ pipe_pc = "render"
    /\ PoolEnded
    /\ IF pool_pc = "raised"
       THEN PipeRaise("CalledProcessError") /\ UNCHANGED ply_size
       ELSE IF pipe_keep_temp
       THEN pipe_pc' = "encode" /\ UNCHANGED <<ply_size, pipe_error>>
       ELSE /\ ply_size' = Unlinked
            /\ IF Missing # {}
               THEN PipeRaise("FileNotFoundError")
               ELSE pipe_pc' = "encode" /\ UNCHANGED pipe_error
    /\ UNCHANGED <<env_KEEP_TEMP, flag_keepTemp, pipe_keep_temp,
                   use_existing_stereo, frame_idx, stage_log, regen_choice,
                   reused_stereo>>
    /\ UNCHANGED <<out_left, out_right, keep_temp, procVars, poolVars>>

\* main, lines 213-231: stereo_frames_to_video.py as a child process
\* (check=True), which encodes the eye videos and muxes the spatial video.
PipeEncode ==
    /\ pipe_pc = "encode"
    /\ stage_log' = Append(stage_log, "encode")
    /\ \E ok \in BOOLEAN :
        IF ok
        THEN pipe_pc' = "return0" /\ UNCHANGED pipe_error
        ELSE PipeRaise("CalledProcessError")
    /\ UNCHANGED <<env_KEEP_TEMP, flag_keepTemp, pipe_keep_temp,
                   use_existing_stereo, frame_idx, regen_choice,
                   reused_stereo>>
    /\ UNCHANGED <<fsVars, keep_temp, procVars, poolVars>>

PipeNext ==
    \/ PipeStart
    \/ PipeTmpSetup
    \/ PipeOpenVideo
    \/ PipeExtract
    \/ PipePlyGen
    \/ PoolSubmit
    \/ WorkerTake
    \/ ChildStart
    \/ ChildLeftExit
    \/ ChildRightExit
    \/ PoolResult
    \/ PoolShutdown
    \/ PipeAfterFanOut
    \/ PipeEncode

PipeSpec == PipeInit /\ [][PipeNext]_vars

PipeEnded == pipe_pc \in {"return0", "return1", "raised"}

\* --------------------- render_ply_to_image.py: the parameter resolver
\* A ply file is its header lines, each line being its words
\* (line.strip().split()), followed by f_data bytes: the vertex block and,
\* at its end, the blocks of the camera metadata.

\* Header lines other than the end_header line.
HeaderLines ==
    {<<"ply">>,
     <<"element", "vertex", "1">>,
     <<"element", "vertex", "x">>,
     <<"element", "face", "1">>,
     <<"property", "float", "x">>,
     <<"property", "double", "y">>}

EndHeader == <<"end_header">>

\* f.readline() at the end of the file: b"".
EmptyLine == <<>>

\* The sequences over S of length at most n.
RECURSIVE SeqsUpTo(_, _)
SeqsUpTo(S, n) ==
    IF n = 0 THEN {<<>>}
    ELSE LET shorter == SeqsUpTo(S, n - 1)
         IN shorter \cup {Append(q, x) : q \in shorter, x \in S}

\* The sizes of the blocks read after the vertex block, lines 76-78.
ExtrinsicBytes == 16 * 4
IntrinsicBytes == 9 * 4
ImageSizeBytes == 2 * 4

\* type_sizes.get(prop_type, 4), lines 51-71.
TypeSize(t) ==
    IF t \in {"char", "int8", "uchar", "uint8"} THEN 1
    ELSE IF t \in {"short", "int16", "ushort", "uint16"} THEN 2
    ELSE IF t \in {"double", "float64"} THEN 8
    ELSE 4

\* The largest vertex block a header of HeaderLines declares: one vertex of
\* MaxLines properties of type double.
MaxVertexBytes == MaxLines * TypeSize("double")

MaxData == MaxVertexBytes + ExtrinsicBytes + IntrinsicBytes + ImageSizeBytes

\* len(header_lines) is kept modulo LenMod: the list is appended to on every
\* iteration of the header loop and never read.
LenMod == MaxLines + 2

\* int(parts[2]) succeeds on these words.
IsInt(w) == w \in {"0", "1", "2"}

IntOf(w) == IF w = "0" THEN 0 ELSE IF w = "1" THEN 1 ELSE 2

\* b"end_header" in line
HasEndHeader(line) == \E i \in 1 .. Len(line) : line[i] = "end_header"

\* The loop over header_str.split("\n"), lines 41-49, from the state st =
\* [in_vertex, vertex_count, vertex_size, ok] on: ok becomes FALSE where
\* int(parts[2]) raises ValueError.  vertex_size is the sum of lines 69-71.
RECURSIVE ScanHeader(_, _)
ScanHeader(lines, st) ==
    IF lines = <<>> \/ ~st.ok THEN st
    ELSE LET parts == Head(lines)
             next ==
                 IF Len(parts) >= 2 /\ parts[1] = "element"
                 THEN LET in_vertex == parts[2] = "vertex"
                      IN IF in_vertex /\ Len(parts) >= 3
                         THEN IF IsInt(parts[3])
                              THEN [st EXCEPT !.in_vertex = TRUE,
                                              !.vertex_count = IntOf(parts[3])]
                              ELSE [st EXCEPT !.ok = FALSE]
                         ELSE [st EXCEPT !.in_vertex = in_vertex]
                 ELSE IF st.in_vertex /\ Len(parts) >= 3
                         /\ parts[1] = "property"
                 THEN [st EXCEPT !.vertex_size = @ + TypeSize(parts[2])]
                 ELSE st
         IN ScanHeader(Tail(lines), next)

HeaderScan(lines) ==
    ScanHeader(lines, [in_vertex |-> FALSE, vertex_count |-> 0,
                       vertex_size |-> 0, ok |-> TRUE])

\* len(f.read(n)) with `avail` bytes left in the file.
ReadLen(n, avail) == IF avail < n THEN avail ELSE n

\* parse_ply_metadata, lines 37-89, after the header loop: the pair
\* <<intrinsics, image_size>> it returns for the header read and the bytes
\* that follow it.  Any exception gives <<None, None>>.
Metadata(header, data, intr, size) ==
    LET st == HeaderScan(header)
        offset == st.vertex_count * st.vertex_size
        avail0 == IF offset > data THEN 0 ELSE data - offset
        extrinsic_len == ReadLen(ExtrinsicBytes, avail0)
        avail1 == avail0 - extrinsic_len
        intrinsic_len == ReadLen(IntrinsicBytes, avail1)
        avail2 == avail1 - intrinsic_len
        image_size_len == ReadLen(ImageSizeBytes, avail2)
    IN IF ~st.ok THEN <<NoValue, NoValue>>
       ELSE <<IF intrinsic_len = IntrinsicBytes THEN intr ELSE NoValue,
              IF image_size_len = ImageSizeBytes THEN size ELSE NoValue>>


\* The fov_x override is passed on as it is.
FovXAsGiven(fov_x, focal_x) == fov_x

\* resolve_render_params, lines 124-125: if fov_x is None and focal_x is
\* None: fov_x = 60.0
DefaultFovX(fov_x, focal_x) ==
    IF fov_x = NoValue /\ focal_x = NoValue THEN <<60>> ELSE fov_x

\* The fallback is taken whether or not the override is given.
FallbackFirst(override, fallback) == fallback

\* resolve_render_params, lines 98-99: args.width if args.width is not None
\* else (...)
OverrideOr(override, fallback) ==
    IF override # NoValue THEN override ELSE fallback

\* The principal point is passed on in pixels.
InPixels(n, d) == <<n, 1>>

RECURSIVE GCD(_, _)
GCD(a, b) == IF b = 0 THEN a ELSE GCD(b, a % b)

\* resolve_render_params, lines 113 and 115: float(n) / float(d), as a
\* fraction in lowest terms.
Frac(n, d) == LET g == GCD(n, d) IN <<n \div g, d \div g>>

\* The centre of the image plane is its corner.
Corner == <<0, 1>>

\* resolve_render_params, lines 117-120: the default centre 0.5.
Half == <<1, 2>>

\* resolve_render_params, lines 98-136, on the parsed metadata.
ResolveParams(a, intr, size) ==
    LET width == OverrideOr(a.width,
                            IF size # NoValue THEN <<size[1]>> ELSE <<1920>>)
        height == OverrideOr(a.height,
                             IF size # NoValue THEN <<size[2]>> ELSE <<1080>>)
        focal_x == IF intr # NoValue /\ a.focal_x = NoValue
                   THEN <<intr[1]>> ELSE a.focal_x
        focal_y == IF intr # NoValue /\ a.focal_y = NoValue
                   THEN <<intr[2]>> ELSE a.focal_y
        cx == IF intr # NoValue /\ a.center_x = NoValue /\ width[1] # 0
              THEN Frac(intr[3], width[1]) ELSE a.center_x
        cy == IF intr # NoValue /\ a.center_y = NoValue /\ height[1] # 0
              THEN Frac(intr[4], height[1]) ELSE a.center_y
    IN [width |-> width,
        height |-> height,
        fov_x |-> DefaultFovX(a.fov_x, focal_x),
        fov_y |-> a.fov_y,
        focal_x |-> focal_x,
        focal_y |-> focal_y,
        center_x |-> IF cx = NoValue THEN Half ELSE cx,
        center_y |-> IF cy = NoValue THEN Half ELSE cy]

\* A command is a list of strings.  A word of the command is the record
\* [s, v]: a literal string s (the binary, a path, a flag, a pass-through
\* argument), or with s = "" the string str(v) of the number v.
Word(s) == [s |-> s, v |-> NoValue]
Str(v) == [s |-> "", v |-> v]

\* if v is not None: cmd.extend([flag, str(v)])
Opt(flag, v) == IF v = NoValue THEN <<>> ELSE <<Word(flag), Str(v)>>

\* [str(x) for x in xs]
RECURSIVE Strs(_)
Strs(xs) == IF xs = <<>> THEN <<>> ELSE <<Str(<<Head(xs)>>)>> \o Strs(Tail(xs))

RECURSIVE Words(_)
Words(xs) == IF xs = <<>> THEN <<>> ELSE <<Word(Head(xs))>> \o Words(Tail(xs))

\* The pass-through arguments are left out.
DropExtraArgs(xs) == <<>>

\* build_brush_command, lines 192-193: if extra_args:
\* cmd.extend(extra_args)
ExtendWith(xs) == Words(xs)

\* build_brush_command, lines 157-195, on the record c of its arguments.
build_brush_command(c) ==
    <<Word(c.brush_bin), Word(c.ply_path), Word("--output"),
      Word(c.output_path)>>
    \o Opt("--width", c.width)
    \o Opt("--height", c.height)
    \o Opt("--fov-x", c.fov_x)
    \o <<Word("--center-x"), Str(c.center_x), Word("--center-y"),
          Str(c.center_y)>>
    \o <<Word("--cam-pos")>> \o Strs(c.cam_pos)
    \o <<Word("--cam-rot")>> \o Strs(c.cam_rot)
    \o <<Word("--background")>> \o Strs(c.background)
    \o Opt("--fov-y", c.fov_y)
    \o Opt("--focal-x", c.focal_x)
    \o Opt("--focal-y", c.focal_y)
    \o Opt("--subsample-points", c.subsample_points)
    \o ExtendWith(c.extra_args)

\* ------------------------------------------------ the resolver's steps

fileVars == <<args, f_readable, f_lines, f_data, f_intr, f_size>>

\* resolve_render_params, lines 93-96: the metadata is parsed only when
\* use_ply_camera is set.
ResolveCall ==
    /\ rs_pc = "call"
    /\ rs_pc' = IF args.use_ply_camera THEN "open" ELSE "parsed"
    /\ UNCHANGED <<fileVars, rd_pos, n_header_lines, intrinsics, image_size,
                   params, cmd>>
    /\ UNCHANGED <<plannerVars, invokerVars>>
    /\ UNCHANGED <<watchVars, poolVars, pipeVars, listVars, entryVars,
                   splatVars>>

\* parse_ply_metadata, lines 26-29: open(ply_path, "rb"); its OSError is
\* caught at line 86 and the function returns (None, None).
OpenFile ==
    /\ rs_pc = "open"
    /\ rs_pc' = IF f_readable THEN "header" ELSE "parsed"
    /\ UNCHANGED <<fileVars, rd_pos, n_header_lines, intrinsics, image_size,
                   params, cmd>>
    /\ UNCHANGED <<plannerVars, invokerVars>>
    /\ UNCHANGED <<watchVars, poolVars, pipeVars, listVars, entryVars,
                   splatVars>>

\* parse_ply_metadata, lines 30-35: one iteration of the header loop.  At
\* the end of the file readline returns b"" and the position stays.
ReadHeaderLine ==
    /\ rs_pc = "header"
    /\ LET line == IF rd_pos < Len(f_lines) THEN f_lines[rd_pos + 1]
                   ELSE EmptyLine
       IN /\ rd_pos' = IF rd_pos < Len(f_lines) THEN rd_pos + 1 ELSE rd_pos
          /\ n_header_lines' = (n_header_lines + 1) % LenMod
          /\ rs_pc' = IF HasEndHeader(line) THEN "trailer" ELSE "header"
    /\ UNCHANGED <<fileVars, intrinsics, image_size, params, cmd>>
    /\ UNCHANGED <<plannerVars, invokerVars>>
    /\ UNCHANGED <<watchVars, poolVars, pipeVars, listVars, entryVars,
                   splatVars>>

\* parse_ply_metadata, lines 37-89: the header is scanned, the blocks after
\* the vertex block are read and decoded, and the function returns.
ParseTrailer ==
    /\ rs_pc = "trailer"
    /\ LET md == Metadata(SubSeq(f_lines, 1, rd_pos), f_data, f_intr, f_size)
       IN /\ intrinsics' = md[1]
          /\ image_size' = md[2]
    /\ rs_pc' = "parsed"
    /\ UNCHANGED <<fileVars, rd_pos, n_header_lines, params, cmd>>
    /\ UNCHANGED <<plannerVars, invokerVars>>
    /\ UNCHANGED <<watchVars, poolVars, pipeVars, listVars, entryVars,
                   splatVars>>

\* resolve_render_params, lines 98-136: the dict is built and returned.
ResolveReturn ==
    /\ rs_pc = "parsed"
    /\ params' = ResolveParams(args, intrinsics, image_size)
    /\ rs_pc' = "returned"
    /\ UNCHANGED <<fileVars, rd_pos, n_header_lines, intrinsics, image_size,
                   cmd>>
    /\ UNCHANGED <<plannerVars, invokerVars>>
    /\ UNCHANGED <<watchVars, poolVars, pipeVars, listVars, entryVars,
                   splatVars>>

\* The arguments render_file passes to build_brush_command, lines 218-235:
\* the resolved params and the arguments of the call.  --cam-rot and
\* --background are main's defaults 0 0 0 1 and 0 0 0.
RenderFileArgs ==
    [brush_bin |-> "brush-render",
     ply_path |-> "frame_000000.ply",
     output_path |-> "frame_000000_left.png",
     width |-> params.width,
     height |-> params.height,
     fov_x |-> params.fov_x,
     fov_y |-> params.fov_y,
     focal_x |-> params.focal_x,
     focal_y |-> params.focal_y,
     center_x |-> params.center_x,
     center_y |-> params.center_y,
     cam_pos |-> cam_pos,
     cam_rot |-> <<0, 0, 0, 1>>,
     background |-> <<0, 0, 0>>,
     subsample_points |-> subsample_points,
     extra_args |-> extra_args]

\* render_file, lines 217-235: the command is built from the params.
BuildCommand ==
    /\ rs_pc = "returned"
    /\ cmd' = build_brush_command(RenderFileArgs)
    /\ rs_pc' = "built"
    /\ UNCHANGED <<fileVars, rd_pos, n_header_lines, intrinsics, image_size,
                   params>>
    /\ UNCHANGED <<plannerVars, invokerVars>>
    /\ UNCHANGED <<watchVars, poolVars, pipeVars, listVars, entryVars,
                   splatVars>>

ResolverNext ==
    \/ ResolveCall
    \/ OpenFile
    \/ ReadHeaderLine
    \/ ParseTrailer
    \/ ResolveReturn
    \/ BuildCommand

\* Nothing but the resolver runs.
OthersIdle ==
    /\ ply_size = [k \in Frames |-> Absent]
    /\ out_left = {}
    /\ out_right = {}
    /\ mode = "oneshot"
    /\ keep_temp = TRUE
    /\ seen_sizes = NoSizes
    /\ expected_index = None
    /\ ply_files = <<>>
    /\ rendered_any = FALSE
    /\ cur = None
    /\ calls = <<>>
    /\ error = NoError
    /\ pc = "init"
    /\ last_obs = NoSizes
    /\ cur_was_done = FALSE
    /\ cur_obs = <<None, None>>
    /\ half_rendered = None
    /\ PoolIdle
    /\ PipeIdle

\* The values an intrinsics block and an image size block can hold.
Intrinsics == {<<1000, 1000, 960, 540>>, <<1500, 1200, 2000, 100>>}
ImageSizes == {<<1920, 1080>>, <<0, 0>>}

\* Every file: a header of at most MaxLines lines that ends with end_header
\* and is followed by any number of bytes up to MaxData, or lines without
\* end_header up to the end of the file; and an unreadable file.
ParseInit ==
    /\ OthersIdle
    /\ ListIdle
    /\ EntryIdle
    /\ SplatIdle
    /\ args \in {[RenderArgs EXCEPT !.use_ply_camera = u] : u \in BOOLEAN}
    /\ f_intr = <<1000, 1000, 960, 540>>
    /\ f_size = <<1920, 1080>>
    /\ \/ /\ f_readable = TRUE
          /\ f_lines \in {Append(h, EndHeader) :
                             h \in SeqsUpTo(HeaderLines, MaxLines - 1)}
          /\ f_data \in 0 .. MaxData
       \/ /\ f_readable = TRUE
          /\ f_lines \in SeqsUpTo(HeaderLines, MaxLines)
          /\ f_data = 0
       \/ /\ f_readable = FALSE
          /\ f_lines = <<>>
          /\ f_data = 0
    /\ ResolverNotCalled
    /\ PlannerIdle
    /\ rs_pc = "call"

ParseSpec == ParseInit /\ [][ResolverNext]_vars

\* The resolver's thread keeps running.
ParseFairSpec ==
    /\ ParseSpec
    /\ WF_vars(ResolveCall)
    /\ WF_vars(OpenFile)
    /\ WF_vars(ReadHeaderLine)
    /\ WF_vars(ParseTrailer)
    /\ WF_vars(ResolveReturn)
    /\ WF_vars(BuildCommand)

\* The values an override can be given on the command line.
Overrides ==
    [width : {NoValue, <<640>>}, height : {NoValue, <<480>>},
     fov_x : {NoValue, <<90>>}, fov_y : {NoValue, <<45>>},
     focal_x : {NoValue, <<500>>}, focal_y : {NoValue, <<600>>},
     center_x : {NoValue, <<1, 4>>}, center_y : {NoValue, <<3, 4>>},
     use_ply_camera : BOOLEAN]

\* A well-formed header of one vertex of one float property.
GoodHeader ==
    << <<"ply">>, <<"element", "vertex", "1">>, <<"property", "float", "x">>,
       EndHeader >>

\* Every combination of overrides over files with a well-formed header:
\* without metadata blocks, with the blocks cut in the image size, and with
\* all blocks.
ResolveInit ==
    /\ OthersIdle
    /\ ListIdle
    /\ EntryIdle
    /\ SplatIdle
    /\ args \in Overrides
    /\ f_readable = TRUE
    /\ f_lines = GoodHeader
    /\ f_data \in {4, 4 + ExtrinsicBytes + IntrinsicBytes,
                    4 + ExtrinsicBytes + IntrinsicBytes + ImageSizeBytes}
    /\ f_intr \in Intrinsics
    /\ f_size \in ImageSizes
    /\ ResolverNotCalled
    /\ PlannerIdle
    /\ rs_pc = "call"

ResolveSpec == ResolveInit /\ [][ResolverNext]_vars

\* ------------------------- render_ply_to_image.py: the stereo planner
\* Python's float is a binary floating-point number.  The model keeps its
\* arithmetic at a reduced width: a number is an integer count of the
\* smallest positive float, its significand has Precision bits, and every
\* operation returns the float nearest to the exact result, ties going to
\* the even significand (round-half-even, IEEE 754).

\* Bits of the significand.
Precision == 3

\* The largest magnitude of a coordinate and of ipd passed in.
MaxUnits == 16

RECURSIVE Pow2(_)
Pow2(n) == IF n = 0 THEN 1 ELSE 2 * Pow2(n - 1)

\* The spacing of the floats around the non-negative number k.
RECURSIVE Ulp(_, _)
Ulp(k, step) == IF k < Pow2(Precision) * step THEN step ELSE Ulp(k, 2 * step)

\* The multiple of step nearest to twice_k / 2, ties to the even multiple;
\* twice_k is not negative.
RoundHalfEven(twice_k, step) ==
    LET q == twice_k \div (2 * step)
        r == twice_k % (2 * step)
    IN IF r < step THEN q * step
       ELSE IF r > step THEN (q + 1) * step
       ELSE IF q % 2 = 0 THEN q * step
       ELSE (q + 1) * step

\* The float nearest to the exact number twice_k / 2.
RoundedHalves(twice_k) ==
    LET m == IF twice_k < 0 THEN -twice_k ELSE twice_k
        r == RoundHalfEven(m, Ulp(m \div 2, 1))
    IN IF twice_k < 0 THEN -r ELSE r

\* a + b and a - b.
FloatAdd(a, b) == RoundedHalves(2 * (a + b))
FloatSub(a, b) == RoundedHalves(2 * (a - b))

\* The offset of an eye is the whole ipd.
WholeIpd(d) == d

\* stereo_camera_positions, line 250: half = ipd * 0.5
HalfIpd(d) == RoundedHalves(d)

\* k is a float: a significand of at most Precision bits times a power of
\* two.
Representable(k) ==
    \E m \in 0 .. (Pow2(Precision) - 1) :
        \E e \in 0 .. Precision : k = m * Pow2(e) \/ k = -(m * Pow2(e))

Floats == {k \in (-MaxUnits) .. MaxUnits : Representable(k)}

\* stereo_camera_positions, lines 249-253.
StereoCameraPositions ==
    /\ sp_pc = "call"
    /\ LET half == HalfIpd(ipd)
       IN /\ left_pos' = <<FloatSub(cam_pos[1], half), cam_pos[2], cam_pos[3]>>
          /\ right_pos' = <<FloatAdd(cam_pos[1], half), cam_pos[2], cam_pos[3]>>
    /\ sp_pc' = "returned"
    /\ UNCHANGED <<cam_pos, ipd>>
    /\ UNCHANGED <<args, f_readable, f_lines, f_data, f_intr, f_size, rd_pos,
                   n_header_lines, intrinsics, image_size, params, cmd, rs_pc,
                   invokerVars>>
    /\ UNCHANGED <<watchVars, poolVars, pipeVars, listVars, entryVars,
                   splatVars>>

\* The planner is called on every base position whose x is any float and
\* whose y and z are 0 or 3, and on every ipd.
StereoInit ==
    /\ OthersIdle
    /\ ListIdle
    /\ EntryIdle
    /\ SplatIdle
    /\ ResolverOff
    /\ cam_pos \in Floats \X {0, 3} \X {0, 3}
    /\ ipd \in Floats
    /\ left_pos = NoValue
    /\ right_pos = NoValue
    /\ sp_pc = "call"

StereoSpec == StereoInit /\ [][StereoCameraPositions]_vars

\* ------------------------------- render_ply_to_image.py: render_file
\* One call of render_file on the params the resolver returned: BuildCommand
\* and then the steps below.  The renderer is a child process whose exit
\* status is an input; a negative status is a process ended by a signal.
ExitCodes == {0, 1, 101, -9}

\* Every failure is reported as 1.
FailureAsOne(code) == IF code # <<0>> THEN <<1>> ELSE <<0>>

\* render_file, lines 242-246: if result.returncode != 0: return
\* result.returncode; return 0
ReturnValue(code) == IF code # <<0>> THEN code ELSE <<0>>

resolveVars == <<args, f_readable, f_lines, f_data, f_intr, f_size, rd_pos,
                 n_header_lines, intrinsics, image_size, params>>

\* render_file, lines 238-239: if dry_run: return 0
DryRunReturn ==
    /\ rs_pc = "built"
    /\ dry_run
    /\ rf_result' = <<0>>
    /\ rs_pc' = "done"
    /\ UNCHANGED <<resolveVars, cmd, plannerVars>>
    /\ UNCHANGED <<subsample_points, extra_args, dry_run, n_started,
                   returncode>>
    /\ UNCHANGED <<watchVars, poolVars, pipeVars, listVars, entryVars,
                   splatVars>>

\* render_file, line 241: result = subprocess.run(cmd); the process is
\* started and waited for.
SubprocessRun(code) ==
    /\ rs_pc = "built"
    /\ ~dry_run
    /\ n_started' = n_started + 1
    /\ returncode' = <<code>>
    /\ rs_pc' = "exited"
    /\ UNCHANGED <<resolveVars, cmd, plannerVars>>
    /\ UNCHANGED <<subsample_points, extra_args, dry_run, rf_result>>
    /\ UNCHANGED <<watchVars, poolVars, pipeVars, listVars, entryVars,
                   splatVars>>

\* render_file, lines 242-246.
RenderFileReturn ==
    /\ rs_pc = "exited"
    /\ rf_result' = ReturnValue(returncode)
    /\ rs_pc' = "done"
    /\ UNCHANGED <<resolveVars, cmd, plannerVars>>
    /\ UNCHANGED <<subsample_points, extra_args, dry_run, n_started,
                   returncode>>
    /\ UNCHANGED <<watchVars, poolVars, pipeVars, listVars, entryVars,
                   splatVars>>

InvokeNext ==
    \/ ResolveCall
    \/ ResolveReturn
    \/ BuildCommand
    \/ DryRunReturn
    \/ \E code \in ExitCodes : SubprocessRun(code)
    \/ RenderFileReturn

\* The lists --brush-args can hold: none, one word, two words, and words
\* that are options of the builder.
ExtraArgs == {<<>>, <<"--quiet">>, <<"--lod", "2">>, <<"--fov-y", "30">>}

\* render_file is called for a file whose embedded camera is not used,
\* under every combination of overrides, with and without --dry-run,
\* --subsample-points and --brush-args, from two camera positions.
InvokeInit ==
    /\ OthersIdle
    /\ ListIdle
    /\ EntryIdle
    /\ SplatIdle
    /\ args \in {a \in Overrides : ~a.use_ply_camera}
    /\ f_readable = TRUE
    /\ f_lines = GoodHeader
    /\ f_data = 4
    /\ f_intr = NoValue
    /\ f_size = NoValue
    /\ rd_pos = 0
    /\ n_header_lines = 0
    /\ intrinsics = NoValue
    /\ image_size = NoValue
    /\ params = NoValue
    /\ cmd = <<>>
    /\ rs_pc = "call"
    /\ cam_pos \in {<<0, 0, 0>>, <<-2, 1, 3>>}
    /\ ipd = 0
    /\ left_pos = NoValue
    /\ right_pos = NoValue
    /\ sp_pc = "off"
    /\ subsample_points \in {NoValue, <<4>>}
    /\ extra_args \in ExtraArgs
    /\ dry_run \in BOOLEAN
    /\ n_started = 0
    /\ returncode = NoValue
    /\ rf_result = NoValue

InvokeSpec == InvokeInit /\ [][InvokeNext]_vars

\* ------------------------------ ply_to_stereo.py: the order of a pass
\* A file name is the sequence of its character codes; the names of a
\* directory are told apart by their stems.

\* "frame_", ".ply"
FramePrefix == <<102, 114, 97, 109, 101, 95>>
DotPly == <<46, 112, 108, 121>>

\* The stems frame_000002, frame_9, frame_10, frame_x and scene.
Stems ==
    {FramePrefix \o <<48, 48, 48, 48, 48, 50>>,
     FramePrefix \o <<57>>,
     FramePrefix \o <<49, 48>>,
     FramePrefix \o <<120>>,
     <<115, 99, 101, 110, 101>>}

IsDigit(c) == c \in 48 .. 57

\* int(digits) for a string of decimal digits.
RECURSIVE DecimalValue(_)
DecimalValue(digits) ==
    IF digits = <<>> THEN 0
    ELSE 10 * DecimalValue(SubSeq(digits, 1, Len(digits) - 1))
         + (digits[Len(digits)] - 48)

\* ply_index, lines 48-55: int(name.split("_", 1)[1]) for a stem that starts
\* with "frame_", 0 where int raises ValueError (on the stems of Stems: where
\* the rest is not a string of digits) and 0 for any other stem.
ply_index(stem) ==
    IF Len(stem) >= Len(FramePrefix)
       /\ SubSeq(stem, 1, Len(FramePrefix)) = FramePrefix
    THEN LET rest == SubSeq(stem, Len(FramePrefix) + 1, Len(stem))
         IN IF rest # <<>> /\ \A i \in 1 .. Len(rest) : IsDigit(rest[i])
            THEN DecimalValue(rest)
            ELSE 0
    ELSE 0

\* x put into the list sorted by ply_index, after the elements of an equal
\* key.
RECURSIVE InsertByKey(_, _)
InsertByKey(x, sorted) ==
    IF sorted = <<>> THEN <<x>>
    ELSE IF ply_index(Head(sorted)) <= ply_index(x)
    THEN <<Head(sorted)>> \o InsertByKey(x, Tail(sorted))
    ELSE <<x>> \o sorted

\* sorted(names, key=ply_index): a stable sort.
RECURSIVE SortedByKey(_)
SortedByKey(names) ==
    IF names = <<>> THEN <<>>
    ELSE InsertByKey(names[Len(names)],
                     SortedByKey(SubSeq(names, 1, Len(names) - 1)))

\* list_ply_files, lines 111-114, and process_once, line 202.
ListPlyFiles ==
    /\ ls_pc = "list"
    /\ sort_keys' = [i \in 1 .. Len(dir_names) |->
                         <<dir_names[i], ply_index(dir_names[i])>>]
    /\ listing' = SortedByKey(dir_names)
    /\ ls_pc' = "for"
    /\ UNCHANGED <<dir_names, render_order>>
    /\ UNCHANGED <<watchVars, poolVars, pipeVars, resolverVars, entryVars,
                   splatVars>>

\* process_once, lines 206-216, in a one-shot pass over an empty output
\* directory: every listed file is rendered, in the order of the list.
RenderListed ==
    /\ ls_pc = "for"
    /\ listing # <<>>
    /\ render_order' = Append(render_order, Head(listing))
    /\ listing' = Tail(listing)
    /\ UNCHANGED <<dir_names, sort_keys, ls_pc>>
    /\ UNCHANGED <<watchVars, poolVars, pipeVars, resolverVars, entryVars,
                   splatVars>>

\* process_once, line 217.
PassReturn ==
    /\ ls_pc = "for"
    /\ listing = <<>>
    /\ ls_pc' = "done"
    /\ UNCHANGED <<dir_names, sort_keys, listing, render_order>>
    /\ UNCHANGED <<watchVars, poolVars, pipeVars, resolverVars, entryVars,
                   splatVars>>

ListNext ==
    \/ ListPlyFiles
    \/ RenderListed
    \/ PassReturn

\* The sequences that hold every element of S once.
RECURSIVE Orders(_)
Orders(S) ==
    IF S = {} THEN {<<>>}
    ELSE UNION {{<<x>> \o q : q \in Orders(S \ {x})} : x \in S}

\* A directory holds any of the stems, and glob yields them in the order of
\* the directory's entries: any order.
ListInit ==
    /\ OthersIdle
    /\ EntryIdle
    /\ SplatIdle
    /\ ResolverIdle
    /\ dir_names \in UNION {Orders(S) : S \in SUBSET Stems}
    /\ sort_keys = <<>>
    /\ listing = <<>>
    /\ render_order = <<>>
    /\ ls_pc = "list"

ListSpec == ListInit /\ [][ListNext]_vars

\* -------------------------------------- tools/video_to_splats.py: main
\* extract_frames is called with frame_interval 1.

\* Everything but video_to_splats.py is idle.
splatOthers == <<watchVars, poolVars, pipeVars, resolverVars, listVars,
                 entryVars>>

splatArgs == <<input_video_exists, keep_frames, first_frame_only, downsample,
               video_frames>>

\* An exception goes past the finally clause: the clean-up is skipped.
FinallySkippedOnRaise(outcome) ==
    IF outcome = "raised" THEN "raised" ELSE "finally"

\* try ... finally, lines 374-412: however the try block ends (return 0,
\* return 1, or an exception), the finally clause runs next.
AfterTry(outcome) == "finally"

\* The try block ends with the given outcome and, for an exception, its
\* type.
EndTry(outcome, e) ==
    /\ vs_pending' = outcome
    /\ vs_error' = e
    /\ vs_pc' = AfterTry(outcome)

\* main, lines 355-372: the input check, then the frame directory: the
\* persistent <output>/frames with --keep-frames, else a fresh mkdtemp.
VsStart ==
    /\ vs_pc = "start"
    /\ IF ~input_video_exists
       THEN /\ vs_pc' = "return1"
            /\ UNCHANGED <<frames_dir, temp_exists, kept_exists>>
       ELSE /\ vs_pc' = "extract"
            /\ IF keep_frames
               THEN /\ frames_dir' = "kept"
                    /\ kept_exists' = TRUE
                    /\ UNCHANGED temp_exists
               ELSE /\ frames_dir' = "temp"
                    /\ temp_exists' = TRUE
                    /\ UNCHANGED kept_exists
    /\ UNCHANGED <<splatArgs, frame_paths, vs_pending, vs_error>>
    /\ UNCHANGED splatOthers

\* extract_frames, lines 85-97: cv2 must be importable and the video must
\* open; output_dir.mkdir(exist_ok=True) finds the directory in place.
VsOpenVideo ==
    /\ vs_pc = "extract"
    /\ \E cv2_found \in BOOLEAN, opened \in BOOLEAN :
        IF ~cv2_found THEN EndTry("raised", "ImportError")
        ELSE IF ~opened THEN EndTry("raised", "RuntimeError")
        ELSE vs_pc' = "read" /\ UNCHANGED <<vs_pending, vs_error>>
    /\ UNCHANGED <<splatArgs, frames_dir, temp_exists, kept_exists,
                   frame_paths>>
    /\ UNCHANGED splatOthers

\* max_frames = 1 if args.first_frame_only else None: the loop stops once
\* extracted_count >= max_frames.
MaxFramesReached == first_frame_only /\ frame_paths >= 1

\* extract_frames, lines 110-129: one turn of the read loop writes the
\* next frame image into frames_dir.
VsReadFrame ==
    /\ vs_pc = "read"
    /\ frame_paths < video_frames
    /\ ~MaxFramesReached
    /\ frame_paths' = frame_paths + 1
    /\ UNCHANGED <<splatArgs, frames_dir, temp_exists, kept_exists,
                   vs_pending, vs_error, vs_pc>>
    /\ UNCHANGED splatOthers

\* extract_frames returns, and main, lines 383-385: no frame extracted
\* ends the try block with return 1.
VsExtracted ==
    /\ vs_pc = "read"
    /\ frame_paths = video_frames \/ MaxFramesReached
    /\ IF frame_paths = 0
       THEN EndTry("return1", NoError)
       ELSE vs_pc' = "predict" /\ UNCHANGED <<vs_pending, vs_error>>
    /\ UNCHANGED <<splatArgs, frames_dir, temp_exists, kept_exists,
                   frame_paths>>
    /\ UNCHANGED splatOthers

\* run_sharp_predict, lines 388-394: the sharp executable as a child
\* process (check=True), or FileNotFoundError when neither the executable
\* nor the ml-sharp sources are found.
VsPredict ==
    /\ vs_pc = "predict"
    /\ \E found \in BOOLEAN, ok \in BOOLEAN :
        IF ~found THEN EndTry("raised", "FileNotFoundError")
        ELSE IF ~ok THEN EndTry("raised", "CalledProcessError")
        ELSE vs_pc' = "downsample" /\ UNCHANGED <<vs_pending, vs_error>>
    /\ UNCHANGED <<splatArgs, frames_dir, temp_exists, kept_exists,
                   frame_paths>>
    /\ UNCHANGED splatOthers

\* main, lines 397-405: the optional downsampling, which raises
\* ImportError without plyfile; then the end of the try block.
VsDownsample ==
    /\ vs_pc = "downsample"
    /\ \E plyfile_found \in BOOLEAN :
        IF downsample /\ ~plyfile_found
        THEN EndTry("raised", "ImportError")
        ELSE EndTry("return0", NoError)
    /\ UNCHANGED <<splatArgs, frames_dir, temp_exists, kept_exists,
                   frame_paths>>
    /\ UNCHANGED splatOthers

\* frames_dir.exists(), line 411.
FramesDirExists ==
    IF frames_dir = "temp" THEN temp_exists ELSE kept_exists

\* The finally clause, lines 409-412, and what the try block had decided:
\* shutil.rmtree(frames_dir) when frames are not kept and the directory
\* exists, then the return or the exception.
VsFinally ==
    /\ vs_pc = "finally"
    /\ IF ~keep_frames /\ FramesDirExists
       THEN IF frames_dir = "temp"
            THEN temp_exists' = FALSE /\ UNCHANGED kept_exists
            ELSE kept_exists' = FALSE /\ UNCHANGED temp_exists
       ELSE UNCHANGED <<temp_exists, kept_exists>>
    /\ vs_pc' = vs_pending
    /\ UNCHANGED <<splatArgs, frames_dir, frame_paths, vs_pending, vs_error>>
    /\ UNCHANGED splatOthers

SplatNext ==
    \/ VsStart
    \/ VsOpenVideo
    \/ VsReadFrame
    \/ VsExtracted
    \/ VsPredict
    \/ VsDownsample
    \/ VsFinally

\* main is started with any arguments on any video; <output>/frames may
\* be left from an earlier run.
SplatInit ==
    /\ OthersIdle
    /\ ResolverIdle
    /\ ListIdle
    /\ EntryIdle
    /\ input_video_exists \in BOOLEAN
    /\ keep_frames \in BOOLEAN
    /\ first_frame_only \in BOOLEAN
    /\ downsample \in BOOLEAN
    /\ video_frames \in 0 .. MaxVideoFrames
    /\ frames_dir = "none"
    /\ temp_exists = FALSE
    /\ kept_exists \in BOOLEAN
    /\ frame_paths = 0
    /\ vs_pending = ""
    /\ vs_error = NoError
    /\ vs_pc = "start"

SplatSpec == SplatInit /\ [][SplatNext]_vars

\* main has ended.
VsEnded == vs_pc \in {"return0", "return1", "raised"}

\* ================================================================ claims

ExactlyOneOutput(k) == (k \in out_left) # (k \in out_right)

\* In sequential mode the renderer is never called: is_stable is called at
\* most once per path (the counter only grows), and its first call for a
\* path returns False.
SeqNeverRenders == mode = "sequential" => pc \notin {"left", "right"}

\* C1: in Sequential watch mode the expected index advances from k to k+1
\* only once frame k is done (both outputs of k exist); a frame present but
\* not yet stable is retried, never skipped.
C1_AdvanceOnlyWhenDone ==
    [][(mode = "sequential" /\ pc # "init" /\ pc' # "init"
        /\ expected_index' = expected_index + 1)
       => (expected_index \in out_left' /\ expected_index \in out_right')]_vars

\* C3: a frame whose two outputs both exist when it is considered is never
\* handed to the parameter resolver or the renderer.
C3_DoneFrameNotRendered == pc \in {"left", "right"} => ~cur_was_done

\* C3, the case: a one-shot pass over a directory whose frames are all
\* present and all done ends without having rendered anything.
C3_Witness ==
    /\ mode = "oneshot"
    /\ pc = "exit"
    /\ ~rendered_any
    /\ \A k \in Frames : Done(k) /\ ply_size[k] # Absent

\* C4: in watch mode a render begins only when the frame's two most recent
\* size observations of this run are equal and non-zero (so never on the
\* first observation, never at size 0, never right after a size change).
C4_RenderOnlyWhenStable ==
    (mode # "oneshot" /\ pc \in {"left", "right"})
        => /\ cur_obs[1] # None
           /\ cur_obs[1] = cur_obs[2]
           /\ cur_obs[2] > 0

\* C4, the case: an unordered watcher renders a frame observed twice at 150
\* while its sibling, last observed at a size other than its current one,
\* is not rendered.
C4_Witness ==
    /\ mode = "unordered"
    /\ pc = "left"
    /\ cur_obs = <<150, 150>>
    /\ \E k \in Frames :
        /\ k < cur
        /\ last_obs[k] = 100
        /\ ply_size[k] = 150
        /\ ~Done(k)

\* C5: a frame left with exactly one eye output by an interrupted watcher
\* run is not treated as done on restart: a sequential watcher then starts
\* at or below its index.
C5_PartialFrameNotDoneOnRestart ==
    [][(pc = "init" /\ pc' = "loop" /\ mode = "sequential"
        /\ half_rendered # None /\ ExactlyOneOutput(half_rendered))
       => expected_index' <= half_rendered]_vars

\* C6: a renderer failure for one frame of the listing aborts only that
\* frame: no frame of the listing that still needs rendering is left
\* unvisited when the pass ends.
C6_RemainingFramesAttempted ==
    (pc = "crashed" /\ cur # None /\ mode # "sequential")
        => \A i \in 1 .. Len(ply_files) : ~should_process(ply_files[i])

\* C7: when the fan-out has ended, its result names exactly the frames
\* whose render failed.
C7_ReportsAllFailed == PoolEnded => Reported = Failed

\* C8: when the fan-out has ended, every submitted frame's job has been
\* started and has run to its end (ok or failed), whichever jobs failed:
\* none was cancelled or left queued.
C8_AllJobsRunToCompletion ==
    PoolEnded =>
        \A i \in 1 .. Len(pipe_ply_files) :
            job[pipe_ply_files[i]] \in {"ok", "failed"}

\* C8, the case: with one worker the first frame fails and every later
\* frame, which can only have started afterwards, is rendered.
C8_Witness ==
    /\ pool_pc = "raised"
    /\ max_workers = 1
    /\ Len(pipe_ply_files) = NumJobs
    /\ raised_for = 0
    /\ \A k \in Jobs \ {0} : job[k] = "ok" /\ Done(k)

\* C9: for every batch size, worker count and failure pattern the fan-out
\* terminates with every submitted job finished.
C9_FanOutTerminates ==
    <>(PoolEnded /\ \A k \in Jobs : job[k] \in {"none", "ok", "failed"})

\* C9, the case: a full batch on several workers ends with several failed
\* frames.
C9_Witness ==
    /\ PoolEnded
    /\ max_workers > 1
    /\ Len(pipe_ply_files) = NumJobs
    /\ Cardinality(Failed) >= 2

\* C10: at most max_workers jobs run at a time, and the two eye renders of
\* one frame never run at the same time.
C10_BoundedConcurrency ==
    /\ Busy <= max_workers
    /\ Cardinality(renderers) <= max_workers
    /\ \A k \in Jobs : ~(<<k, "left">> \in renderers /\ <<k, "right">> \in renderers)

\* C10, the case: every worker is rendering while a further frame waits in
\* the queue.
C10_Witness ==
    /\ Busy = max_workers
    /\ Cardinality(renderers) = max_workers
    /\ \E k \in Jobs : job[k] = "pending"

\* C11: for every frame job the left renderer call is made before the right
\* one, the right call is made only after the left call returned status 0,
\* and a non-zero status of either call ends the job at once (no further
\* call) with an error naming the frame file and the eye.
C11_LeftThenRightFailFast ==
    /\ Len(calls) <= 2
    /\ Len(calls) >= 1 => calls[1][1] = "left"
    /\ Len(calls) = 2 => calls[1] = <<"left", 0>> /\ calls[2][1] = "right"
    /\ pc = "right" => calls = << <<"left", 0>> >>
    /\ \A i \in 1 .. Len(calls) :
        calls[i][2] # 0 =>
            /\ i = Len(calls)
            /\ pc = "crashed"
            /\ error = <<cur, calls[i][1]>>

\* C11, the case: the left call of a frame returned 0 and wrote its output,
\* the right call returned non-zero, and the job ended with the error for
\* that frame's right eye.
C11_Witness ==
    /\ pc = "crashed"
    /\ calls = << <<"left", 0>>, <<"right", 1>> >>
    /\ cur \in out_left /\ cur \notin out_right
    /\ error = <<cur, "right">>

\* C14: once the watch loop has been entered the watcher does not end on
\* its own, whatever the directory holds and whatever the renderer returns:
\* it is looping, rendering or sleeping until it is stopped from outside.
C14_WatcherNeverEndsOnItsOwn ==
    mode # "oneshot" => pc \notin {"crashed", "exit"}

\* C15: every iteration of the watch loop renders at least one frame or
\* sleeps: the unordered loop is back at its top without sleeping only when
\* process_once has rendered, and the sequential loop never goes from its
\* top to its top (counter advanced) in one step.
C15_IterationRendersOrSleeps ==
    [][/\ (mode = "unordered" /\ pc = "for" /\ pc' = "loop") => rendered_any
       /\ (mode = "sequential" /\ pc = "loop" /\ pc' = "loop")
            => expected_index' = expected_index]_vars

\* One past the highest index whose left and right outputs both exist, 0
\* when no frame is fully rendered.
OnePastHighestDone ==
    LET done == {k \in Frames : Done(k)}
    IN IF done = {} THEN 0 ELSE SetMax(done) + 1

\* C16: at the start of a sequential watcher run the expected index is one
\* past the highest fully rendered index, 0 if there is none.
C16_InitialIndexIsOnePastHighestDone ==
    [][(pc = "init" /\ pc' = "loop" /\ mode = "sequential")
       => expected_index' = OnePastHighestDone]_vars

\* The position of a stage in the pipeline's order.
StageRank(st) == CHOOSE i \in 1 .. Len(Stages) : Stages[i] = st

\* C12: the coordinator invokes the stages in the order extraction,
\* point-cloud generation, render batch, encode/mux, each at most once; a
\* stage is invoked only while no exception has been raised and no frame of
\* the batch has failed, and encode/mux only once every submitted frame has
\* ended without error; once main has ended nothing more is invoked.
C12_StagesInOrderAbortOnFailure ==
    /\ [](\A i, j \in 1 .. Len(stage_log) :
            i < j => StageRank(stage_log[i]) < StageRank(stage_log[j]))
    /\ [][stage_log' # stage_log =>
            /\ pipe_error = NoError
            /\ Failed = {}
            /\ ~PipeEnded
            /\ stage_log'[Len(stage_log')] = "encode" =>
                 /\ nsub = Len(pipe_ply_files)
                 /\ \A i \in 1 .. nsub : job[pipe_ply_files[i]] = "ok"]_vars

\* C12, the case: a run that invoked all four stages in order over a full
\* batch and returned 0.
C12_Witness ==
    /\ pipe_pc = "return0"
    /\ stage_log = Stages
    /\ Len(pipe_ply_files) = NumJobs
    /\ \A k \in Jobs : job[k] = "ok" /\ Done(k)

\* C13: in a pipeline run a frame's source ply file is deleted only when
\* the coordinator's retention is disabled and both eye outputs of the frame
\* exist, and never once a frame of the batch has failed.
C13_DeleteOnlyAfterSuccessWithoutRetention ==
    [][\A k \in Jobs :
        (ply_size[k] # Absent /\ ply_size'[k] = Absent) =>
            /\ ~pipe_keep_temp
            /\ k \in out_left' /\ k \in out_right'
            /\ Failed = {}]_vars

\* C17: when the stereo frames of a prior run are reused, no extraction,
\* point-cloud generation or render job happens and the stereo directory
\* holds exactly the images it held; when regeneration is chosen, no frame
\* image is left in the directory before the first render job starts.
C17_ReuseSkipsStagesRegenerateClears ==
    /\ use_existing_stereo =>
        /\ \A i \in 1 .. Len(stage_log) : stage_log[i] = "encode"
        /\ nsub = 0 /\ renderers = {}
        /\ \A k \in Jobs : job[k] = "none"
        /\ <<out_left, out_right>> = reused_stereo
    /\ (regen_choice = "y" /\ \A k \in Jobs : job[k] \in {"none", "pending"})
        => out_left = {} /\ out_right = {}

\* C17, the case: a prior run left images of some frames, reuse was chosen,
\* and the run went straight to encoding and returned 0.
C17_Witness ==
    /\ use_existing_stereo
    /\ regen_choice = "n"
    /\ pipe_pc = "return0"
    /\ stage_log = <<"encode">>
    /\ out_left # {} /\ out_right # out_left

\* The command has an option with this flag.
HasFlag(flag) == \E i \in 1 .. Len(cmd) : cmd[i] = Word(flag)

\* C18: for every combination of overrides and embedded metadata the
\* resolved parameters have fov_x or focal_x set, and every command built
\* from them contains --fov-x or --focal-x.
C18_HorizontalProjectionAlwaysSet ==
    /\ rs_pc \in {"returned", "built"}
        => params.fov_x # NoValue \/ params.focal_x # NoValue
    /\ rs_pc = "built" => HasFlag("--fov-x") \/ HasFlag("--focal-x")

\* C18, the case: no fov or focal override and a file without metadata
\* blocks: the command carries the default --fov-x 60 and no --focal-x.
C18_Witness ==
    /\ rs_pc = "built"
    /\ args.use_ply_camera
    /\ args.fov_x = NoValue /\ args.focal_x = NoValue
    /\ intrinsics = NoValue
    /\ params.fov_x = <<60>>
    /\ HasFlag("--fov-x") /\ ~HasFlag("--focal-x")

\* The file's embedded metadata cannot be parsed: the file cannot be
\* opened, its header has no end_header line or a vertex count that is not
\* a number, or fewer bytes than the three metadata blocks follow the
\* declared vertex block.
Unparsable ==
    \/ ~f_readable
    \/ \A i \in 1 .. Len(f_lines) : ~HasEndHeader(f_lines[i])
    \/ ~HeaderScan(f_lines).ok
    \/ LET st == HeaderScan(f_lines)
       IN f_data - st.vertex_count * st.vertex_size
            < ExtrinsicBytes + IntrinsicBytes + ImageSizeBytes

\* C19: with use_ply_camera set and metadata that cannot be parsed, the
\* resolver returns exactly what it returns for a file without embedded
\* metadata.
C19_UnparsableMetadataResolvesAsNone ==
    (args.use_ply_camera /\ Unparsable /\ rs_pc \in {"returned", "built"})
        => params = ResolveParams(args, NoValue, NoValue)

\* C20: for every file content the resolver terminates and returns a
\* result.
C20_ResolverTerminates == <>(rs_pc = "returned")

\* The resolver has returned its dict.
Resolved == rs_pc \in {"returned", "built"}

ParamNames ==
    {"width", "height", "fov_x", "fov_y", "focal_x", "focal_y", "center_x",
     "center_y"}

NoOverrides == \A f \in ParamNames : args[f] = NoValue

\* C21: for each of width, height, fov-x, fov-y, focal-x, focal-y, center-x
\* and center-y, a given override is the resolved value, whatever the
\* embedded metadata is and whether or not the embedded camera is used.
C21_OverrideWins ==
    Resolved =>
        \A f \in ParamNames : args[f] # NoValue => params[f] = args[f]

\* All eight overrides are given over a file with metadata that is read,
\* and the resolved values are the overrides.
C21_Witness ==
    /\ Resolved
    /\ args.use_ply_camera
    /\ intrinsics # NoValue
    /\ image_size # NoValue
    /\ \A f \in ParamNames : args[f] # NoValue /\ params[f] = args[f]
    /\ params.width # <<image_size[1]>>
    /\ params.focal_x # <<intrinsics[1]>>

\* The resolver has no embedded metadata: the file has none, or the embedded
\* camera is not used and the file is not read.
NoMetadata == intrinsics = NoValue /\ image_size = NoValue

\* C22: with no overrides and no embedded metadata the resolver returns
\* width 1920, height 1080, fov-x 60, fov-y unset, focal-x and focal-y unset
\* and the center (0.5, 0.5); fov-x is defaulted to 60 exactly when neither
\* a fov-x override nor any focal-x, override or embedded, is available; and
\* fov-y is never synthesized.
C22_DefaultsWithoutMetadata ==
    Resolved =>
        /\ NoOverrides /\ NoMetadata =>
               params = [width |-> <<1920>>, height |-> <<1080>>,
                         fov_x |-> <<60>>, fov_y |-> NoValue,
                         focal_x |-> NoValue, focal_y |-> NoValue,
                         center_x |-> <<1, 2>>, center_y |-> <<1, 2>>]
        /\ IF /\ args.fov_x = NoValue
              /\ args.focal_x = NoValue
              /\ intrinsics = NoValue
           THEN params.fov_x = <<60>>
           ELSE params.fov_x = args.fov_x
        /\ params.fov_y = args.fov_y

\* A file with all metadata blocks is resolved without overrides and with
\* the embedded camera not used: the defaults are returned.
C22_Witness ==
    /\ Resolved
    /\ NoOverrides
    /\ ~args.use_ply_camera
    /\ f_data = 4 + ExtrinsicBytes + IntrinsicBytes + ImageSizeBytes
    /\ NoMetadata
    /\ params.width = <<1920>>
    /\ params.fov_x = <<60>>
    /\ params.center_x = <<1, 2>>

\* The resolver has read both metadata blocks, and neither a focal length
\* nor a center is overridden.
EmbeddedCamera ==
    /\ Resolved
    /\ intrinsics # NoValue
    /\ image_size # NoValue
    /\ \A f \in {"focal_x", "focal_y", "center_x", "center_y"} :
           args[f] = NoValue

\* The fraction c is the quotient pixels / extent; where the extent is zero
\* there is no quotient and c is the default 0.5.
NormalizedBy(c, pixels, extent) ==
    /\ c[2] > 0
    /\ IF extent # 0 THEN c[1] * extent = pixels * c[2] ELSE c = <<1, 2>>

\* C23: with embedded metadata and no overrides, width and height are the
\* embedded image size, focal-x and focal-y are the entries (0,0) and (1,1)
\* of the intrinsic matrix, and center-x and center-y are the principal
\* point divided by the resolved width and height (the override where one
\* is given); the matrix [[1000,0,960],[0,1000,540],[0,0,1]] with the image
\* size 1920x1080 resolves to focal 1000/1000 and center 0.5/0.5.
C23_EmbeddedCameraIsUsed ==
    EmbeddedCamera =>
        /\ args.width = NoValue => params.width = <<image_size[1]>>
        /\ args.height = NoValue => params.height = <<image_size[2]>>
        /\ params.focal_x = <<intrinsics[1]>>
        /\ params.focal_y = <<intrinsics[2]>>
        /\ NormalizedBy(params.center_x, intrinsics[3], params.width[1])
        /\ NormalizedBy(params.center_y, intrinsics[4], params.height[1])
        /\ /\ intrinsics = <<1000, 1000, 960, 540>>
           /\ image_size = <<1920, 1080>>
           /\ args.width = NoValue
           /\ args.height = NoValue
           => /\ params.focal_x = <<1000>>
              /\ params.focal_y = <<1000>>
              /\ params.center_x = <<1, 2>>
              /\ params.center_y = <<1, 2>>

\* The embedded camera of a 1920x1080 image is resolved under a width
\* override of 640: the center is 960 / 640 across and 540 / 1080 down.
C23_Witness ==
    /\ EmbeddedCamera
    /\ intrinsics = <<1000, 1000, 960, 540>>
    /\ image_size = <<1920, 1080>>
    /\ args.width = <<640>>
    /\ args.height = NoValue
    /\ params.width = <<640>>
    /\ params.height = <<1080>>
    /\ params.focal_x = <<1000>>
    /\ params.center_x = <<3, 2>>
    /\ params.center_y = <<1, 2>>

\* The fraction c lies in [0, 1].
InUnitInterval(c) == c[2] > 0 /\ 0 <= c[1] /\ c[1] <= c[2]

\* C24: every RenderParams the resolver produces has center-x and center-y
\* within [0, 1], for every embedded intrinsic matrix, embedded image size
\* and set of overrides.
C24_CenterWithinUnitInterval ==
    Resolved =>
        InUnitInterval(params.center_x) /\ InUnitInterval(params.center_y)

Abs(n) == IF n < 0 THEN -n ELSE n

\* The floats up to the largest sum of a coordinate and half an ipd.
SumFloats == {k \in (-2 * MaxUnits) .. (2 * MaxUnits) : Representable(k)}

\* f is a float nearest to the exact number twice_v / 2.
Nearest(f, twice_v) ==
    /\ f \in SumFloats
    /\ \A g \in SumFloats : Abs(2 * f - twice_v) <= Abs(2 * g - twice_v)

\* C25 as stated: for every base position (x, y, z) and every ipd d,
\* positive, zero or negative, the planner returns left = (x - d/2, y, z)
\* and right = (x + d/2, y, z): Y and Z are unchanged, right.x - left.x = d,
\* the midpoint is the base position, and d = 0 gives left = right = base.
C25_StereoOffsetsExact ==
    sp_pc = "returned" =>
        /\ 2 * left_pos[1] = 2 * cam_pos[1] - ipd
        /\ 2 * right_pos[1] = 2 * cam_pos[1] + ipd
        /\ left_pos[2] = cam_pos[2] /\ left_pos[3] = cam_pos[3]
        /\ right_pos[2] = cam_pos[2] /\ right_pos[3] = cam_pos[3]
        /\ right_pos[1] - left_pos[1] = ipd
        /\ left_pos[1] + right_pos[1] = 2 * cam_pos[1]
        /\ ipd = 0 => left_pos = cam_pos /\ right_pos = cam_pos

\* C25, amended: the planner returns left = (fl(x - h), y, z) and right =
\* (fl(x + h), y, z), where h is a float nearest to d/2 and fl(v) a float
\* nearest to v: Y and Z are unchanged and d = 0 gives left = right = base;
\* where x - d/2 and x + d/2 are floats they are returned exactly, and then
\* right.x - left.x = d and the midpoint is the base position; the base
\* (0, 0, 0) gives left.x = -d/2 and right.x = d/2 where d/2 is a float.
C25_StereoOffsetsRounded ==
    sp_pc = "returned" =>
        /\ left_pos[2] = cam_pos[2] /\ left_pos[3] = cam_pos[3]
        /\ right_pos[2] = cam_pos[2] /\ right_pos[3] = cam_pos[3]
        /\ ipd = 0 => left_pos = cam_pos /\ right_pos = cam_pos
        /\ \E h \in Floats :
               /\ Nearest(h, ipd)
               /\ Nearest(left_pos[1], 2 * (cam_pos[1] - h))
               /\ Nearest(right_pos[1], 2 * (cam_pos[1] + h))
        /\ /\ ipd % 2 = 0
           /\ Representable(cam_pos[1] - ipd \div 2)
           /\ Representable(cam_pos[1] + ipd \div 2)
           => /\ left_pos[1] = cam_pos[1] - ipd \div 2
              /\ right_pos[1] = cam_pos[1] + ipd \div 2
              /\ right_pos[1] - left_pos[1] = ipd
              /\ left_pos[1] + right_pos[1] = 2 * cam_pos[1]
        /\ cam_pos[1] = 0 /\ ipd % 2 = 0
           => 2 * left_pos[1] = -ipd /\ 2 * right_pos[1] = ipd

\* The planner has returned for a base off the origin and a negative ipd:
\* the left position is on the right of the base.
C25_Witness ==
    /\ sp_pc = "returned"
    /\ cam_pos = <<4, 3, 0>>
    /\ ipd = -2
    /\ left_pos = <<5, 3, 0>>
    /\ right_pos = <<3, 3, 0>>

\* C26: each call of render_file starts the external renderer at most
\* once, never under dry-run and exactly once otherwise, without a retry;
\* it returns 0 if and only if dry-run is set or the process exited with 0;
\* and any non-zero exit status is returned unchanged.
C26_OneStartStatusReturned ==
    /\ n_started <= 1
    /\ dry_run => n_started = 0
    /\ rs_pc = "done" =>
           /\ n_started = IF dry_run THEN 0 ELSE 1
           /\ (rf_result = <<0>>) <=> (dry_run \/ returncode = <<0>>)
           /\ ~dry_run /\ returncode # <<0>> => rf_result = returncode

\* A call has returned the status of a renderer that was ended by a
\* signal, after starting it once.
C26_Witness ==
    /\ rs_pc = "done"
    /\ ~dry_run
    /\ n_started = 1
    /\ returncode = <<-9>>
    /\ rf_result = <<-9>>

\* render_file has built its command.
Built == rs_pc \in {"built", "exited", "done"}

\* The command without the pass-through arguments at its end.
OwnPart == SubSeq(cmd, 1, Len(cmd) - Len(extra_args))

\* The positions of the flag in the builder's own part of the command.
At(flag) == {i \in 1 .. Len(OwnPart) : OwnPart[i] = Word(flag)}

\* The flag is in the command once, followed by the strings of the numbers
\* vals and by no further number.
FlagWith(flag, vals) ==
    /\ Cardinality(At(flag)) = 1
    /\ \A i \in At(flag) :
           /\ i + Len(vals) <= Len(OwnPart)
           /\ \A j \in 1 .. Len(vals) : OwnPart[i + j] = Str(vals[j])
           /\ \/ i + Len(vals) = Len(OwnPart)
              \/ OwnPart[i + Len(vals) + 1].s # ""

\* The flag is in the command, with its value, exactly when the value is
\* set.
FlagIffSet(flag, value) ==
    IF value # NoValue THEN FlagWith(flag, <<value>>) ELSE At(flag) = {}

\* C27: every command built contains the input path, --output,
\* --center-x, --center-y, --cam-pos with 3 values, --cam-rot with 4 values
\* and --background with 3 values; each of --width, --height, --fov-x,
\* --fov-y, --focal-x, --focal-y and --subsample-points appears if and only
\* if its value is set; and the pass-through arguments are appended last,
\* unchanged and in order.
C27_CommandShape ==
    Built =>
        /\ Len(cmd) >= Len(extra_args) + 4
        /\ \E i \in 1 .. Len(OwnPart) : OwnPart[i] = Word("frame_000000.ply")
        /\ \E i \in 1 .. (Len(OwnPart) - 1) :
               /\ OwnPart[i] = Word("--output")
               /\ OwnPart[i + 1] = Word("frame_000000_left.png")
        /\ FlagWith("--center-x", <<params.center_x>>)
        /\ FlagWith("--center-y", <<params.center_y>>)
        /\ FlagWith("--cam-pos",
                    <<(<<cam_pos[1]>>), (<<cam_pos[2]>>), (<<cam_pos[3]>>)>>)
        /\ FlagWith("--cam-rot", <<(<<0>>), (<<0>>), (<<0>>), (<<1>>)>>)
        /\ FlagWith("--background", <<(<<0>>), (<<0>>), (<<0>>)>>)
        /\ FlagIffSet("--width", params.width)
        /\ FlagIffSet("--height", params.height)
        /\ FlagIffSet("--fov-x", params.fov_x)
        /\ FlagIffSet("--fov-y", params.fov_y)
        /\ FlagIffSet("--focal-x", params.focal_x)
        /\ FlagIffSet("--focal-y", params.focal_y)
        /\ FlagIffSet("--subsample-points", subsample_points)
        /\ \A j \in 1 .. Len(extra_args) :
               cmd[Len(cmd) - Len(extra_args) + j]
                   = [s |-> extra_args[j], v |-> NoValue]

\* The command built under all overrides, a subsample stride and two
\* pass-through arguments, from a camera off the origin.
C27_Witness ==
    /\ rs_pc = "built"
    /\ cmd = <<Word("brush-render"), Word("frame_000000.ply"),
               Word("--output"), Word("frame_000000_left.png"),
               Word("--width"), Str(<<640>>), Word("--height"), Str(<<480>>),
               Word("--fov-x"), Str(<<90>>),
               Word("--center-x"), Str(<<1, 4>>),
               Word("--center-y"), Str(<<3, 4>>),
               Word("--cam-pos"), Str(<<-2>>), Str(<<1>>), Str(<<3>>),
               Word("--cam-rot"), Str(<<0>>), Str(<<0>>), Str(<<0>>),
               Str(<<1>>),
               Word("--background"), Str(<<0>>), Str(<<0>>), Str(<<0>>),
               Word("--fov-y"), Str(<<45>>), Word("--focal-x"), Str(<<500>>),
               Word("--focal-y"), Str(<<600>>),
               Word("--subsample-points"), Str(<<4>>),
               Word("--lod"), Word("2")>>

\* The input directory holds no frame and the output directory no image:
\* no frame was there to render when the pass listed the directory.
NoFramesFound ==
    /\ \A k \in Frames : ply_size[k] = Absent
    /\ out_left = {}
    /\ out_right = {}

\* C28: when the input location contains no point-cloud frames, the render
\* stage ends with an error outcome, a non-zero exit status or a raised
\* error, and not with success; here for the one-shot pass of
\* ply_to_stereo.py, whose main returns 0 at pc = "exit".
C28_EmptyInputEndsWithError ==
    mode = "oneshot" /\ NoFramesFound => pc # "exit"

\* The step is an iteration of process_once's for loop.
LoopStep ==
    /\ pc = "for"
    /\ ply_files # <<>>
    /\ ply_files' = Tail(ply_files)
    /\ pc' # "stopped"

\* The observation is_stable is about to make of frame k repeats the last
\* one of this run, and the file is not empty.
BecomesStable(k) == last_obs[k] = ply_size[k] /\ ply_size[k] > 0

\* C29: in the Unordered discipline a frame that is not done and is stable
\* is rendered in the poll cycle in which it becomes stable, whatever the
\* state (absent, unstable, zero-size) of any lower-indexed frame: every
\* frame present is in the cycle's listing, a frame that is done, unstable
\* or empty is passed over for the next one of the listing, and the
\* observation that makes a frame stable starts its render.
C29_NoWaitForLowerSibling ==
    [][mode = "unordered" =>
        /\ pc = "loop" /\ pc' \in {"for", "sleep"} =>
               \A k \in Frames :
                   ply_size[k] # Absent =>
                       \E i \in 1 .. Len(ply_files') : ply_files'[i] = k
        /\ LoopStep =>
               LET k == Head(ply_files)
               IN /\ ~Done(k) /\ BecomesStable(k) => pc' = "left" /\ cur' = k
                  /\ Done(k) \/ (ply_size[k] # Absent /\ ~BecomesStable(k))
                         => pc' = "for" /\ cur' = cur]_vars

\* The render of frame 1 has begun on its second observation of the same
\* size while frame 0, not done, is an empty file.
C29_Witness ==
    /\ mode = "unordered"
    /\ pc = "left"
    /\ cur = 1
    /\ cur_obs = <<100, 100>>
    /\ ply_size[0] = 0
    /\ last_obs[0] = 0
    /\ ~Done(0)

\* The file name a comes before the file name b, or is b, in the order of
\* their character codes.
RECURSIVE NameLeq(_, _)
NameLeq(a, b) ==
    IF a = <<>> THEN TRUE
    ELSE IF b = <<>> THEN FALSE
    ELSE IF Head(a) # Head(b) THEN Head(a) < Head(b)
    ELSE NameLeq(Tail(a), Tail(b))

\* C30: within one one-shot pass (and one Unordered poll cycle) the
\* eligible frames are rendered in filename-sort order, for every set of
\* candidate file names, indices that are not zero-padded to 6 digits and
\* names that do not match frame_<index> included.
C30_RenderedInFilenameOrder ==
    \A i, j \in 1 .. Len(render_order) :
        i < j => NameLeq(render_order[i] \o DotPly, render_order[j] \o DotPly)

\* The stem is frame_ followed by six decimal digits.
SixDigitName(stem) ==
    /\ Len(stem) = Len(FramePrefix) + 6
    /\ SubSeq(stem, 1, Len(FramePrefix)) = FramePrefix
    /\ \A i \in (Len(FramePrefix) + 1) .. Len(stem) : stem[i] \in 48 .. 57

\* The number six decimal digits spell.
SixDigitNumber(stem) ==
    LET d == [i \in 1 .. 6 |-> stem[Len(FramePrefix) + i] - 48]
    IN 100000 * d[1] + 10000 * d[2] + 1000 * d[3] + 100 * d[4] + 10 * d[5]
       + d[6]

\* C31: the frame index of a file is the number in its name when the name
\* is frame_<6-digit-zero-padded-index>, and 0 for every other name: no
\* frame_ prefix, a non-numeric suffix, or a suffix that is not a 6-digit
\* zero-padded number.
C31_IndexOnlyOfSixDigitNames ==
    \A i \in 1 .. Len(sort_keys) :
        LET stem == sort_keys[i][1]
        IN sort_keys[i][2]
               = IF SixDigitName(stem) THEN SixDigitNumber(stem) ELSE 0

\* C32: for a frame whose both output images exist the watcher performs no
\* stability check: while the frame is done its entry in the size map is
\* neither created nor updated, in both disciplines (the map as a whole is
\* lost when the process ends).
C32_NoStabilityCheckWhenDone ==
    [][\A k \in Frames :
          Done(k) =>
              /\ seen_sizes'[k] \in {seen_sizes[k], None}
              /\ last_obs'[k] \in {last_obs[k], None}]_vars

\* The unordered loop has gone past frame 0, which is done and present with
\* a non-zero size, and has made no observation of it.
C32_Witness ==
    /\ mode = "unordered"
    /\ pc = "for"
    /\ ply_files = <<1>>
    /\ Done(0)
    /\ ply_size[0] = 100
    /\ seen_sizes[0] = None
    /\ last_obs[0] = None
    /\ seen_sizes[1] = None

\* No renderer call fails: the process does not end with the RuntimeError
\* of render_stereo_from_ply.
RendererSucceeds == pc = "crashed" => error[2] = "stat"

\* C33: in Unordered watch mode, under fair scheduling of the poll loop and
\* a renderer that always succeeds, every frame file that stays present
\* with a constant non-zero size eventually has both of its eye outputs
\* written.
C33_StableFrameEventuallyRendered ==
    \A k \in Frames :
        /\ [](mode = "unordered")
        /\ []RendererSucceeds
        /\ <>[](ply_size[k] = 100)
        => <>(k \in out_left /\ k \in out_right)

\* The fan-out is over and every frame of the batch has succeeded.
BatchSucceeded == pipe_pc = "render" /\ PoolEnded /\ pool_pc # "raised"

\* C34: in the full pipeline, for every value of the KEEP_TEMP environment
\* variable, the -keepTemp flag and the keep-temp answer, once every frame
\* of the render batch has succeeded the retention step completes without
\* error and the encode/mux stage is entered; with retention disabled no
\* point-cloud file of the batch remains afterwards.
C34_RetentionStepCompletes ==
    [][BatchSucceeded =>
          /\ pipe_pc' = "encode"
          /\ pipe_error' = NoError
          /\ ~pipe_keep_temp =>
                \A i \in 1 .. Len(pipe_ply_files) :
                    ply_size'[pipe_ply_files[i]] = Absent]_vars

\* The frames that have an image in the stereo frame directory, and the
\* frames of the render batch.
FramesWithOutput == out_left \cup out_right
BatchFrames == {pipe_ply_files[i] : i \in 1 .. Len(pipe_ply_files)}

\* C35: the encode/mux stage is invoked only when every frame of the batch
\* has both its left and its right image in the stereo frame directory,
\* including when the output of a prior run is reused.
C35_EncodeOnlyCompleteFrames ==
    pipe_pc = "encode" =>
        \A k \in BatchFrames \cup FramesWithOutput :
            k \in out_left /\ k \in out_right

\* The frames whose job has been submitted to the executor.
Submitted == {pipe_ply_files[i] : i \in 1 .. nsub}

\* C36: during the batch fan-out no two concurrently running render jobs
\* write the same output file: the stems of the submitted frames are
\* pairwise distinct, every running renderer belongs to the running job of
\* its own frame, a job runs one renderer at a time, and an eye image is
\* written only by the renderer of its own frame and eye.
C36_JobsWriteDistinctFiles ==
    /\ [](/\ \A i, j \in 1 .. nsub :
               i # j => pipe_ply_files[i] # pipe_ply_files[j]
          /\ \A r \in renderers :
               r[1] \in Submitted /\ job[r[1]] = "running"
          /\ \A k \in Jobs :
               ~(<<k, "left">> \in renderers /\ <<k, "right">> \in renderers))
    /\ [][/\ \A k \in out_left' \ out_left : <<k, "left">> \in renderers
          /\ \A k \in out_right' \ out_right : <<k, "right">> \in renderers]_vars

\* Two jobs run at once, one in its left and one in its right render, and
\* the first frame's left image is already written.
C36_Witness ==
    /\ pool_pc \in {"submit", "collect"}
    /\ renderers = {<<0, "right">>, <<1, "left">>}
    /\ out_left = {0}

\* One of the three checks of the entry point fails.
EntryCheckFails ==
    \/ ~InputExists
    \/ (mode # "oneshot" /\ ~InputIsDir)
    \/ ~(brush_on_path \/ brush_exists)

C38_TempFramesRemovedKeptFramesStay ==
    /\ []((VsEnded /\ ~keep_frames) => ~temp_exists)
    /\ []((VsEnded /\ keep_frames /\ frames_dir = "kept") => kept_exists)
    /\ [][(keep_frames /\ kept_exists) => kept_exists']_vars

\* Point-cloud generation raised after a frame was extracted into the
\* temporary directory, and main has ended.
C38_Witness ==
    /\ vs_pc = "raised" /\ vs_error = "CalledProcessError"
    /\ ~keep_frames /\ frames_dir = "temp" /\ frame_paths = 1

====
